---- MODULE Spec2Model ----
(***************************************************************************)
(* State-machine model of the DevCreate-BuildFest backend (T049_SPD):      *)
(* the auth controller (register / login / auth0_redirect), the JWT        *)
(* middleware, the soil-health and fertilizer routes, the weather-alert    *)
(* route, the market-price proxy and the chatbot routes, and of the        *)
(* trade-data effect of the MarketTable view of the frontend.              *)
(*                                                                         *)
(* A request is a record in a slot of `req`; every `await` of a handler is *)
(* a step boundary, so one action is the database / adapter completing     *)
(* plus the synchronous continuation of the handler up to its next await.  *)
(* Strings that the code transforms (emails) are sequences of characters;  *)
(* an HTTP header is the sequence of its space-separated words.            *)
(* Pass-through fields that no rule reads (name, picture, humidity, wind)  *)
(* are left out of the records.                                            *)
(***************************************************************************)
EXTENDS Integers, Sequences, FiniteSets, TLC

VARIABLES
  users,      \* the User collection: a sequence, _id = position
  readings,   \* the WeatherReading collection
  samples,    \* the SoilHealth collection
  recs,       \* the FertilizerRecommendation collection
  alerts,     \* the Alert collection
  forecasts,  \* the MarketForecast collection
  req,        \* request slots: the in-flight request of each slot
  enamData,   \* MarketTable: the rows shown
  loading,    \* MarketTable: the loading flag
  error,      \* MarketTable: the error message, or null
  dateFilter, \* MarketTable: the selected date
  pending,    \* MarketTable: the POSTs of fetchEnamData not yet settled
  fetches     \* MarketTable: the number of POSTs sent so far

\* the state of the MarketTable component
table == <<enamData, loading, error, dateFilter, pending, fetches>>

vars == <<users, readings, samples, recs, alerts, forecasts, req, table>>

\* ------------------------------------------------------------------ bounds

MaxReadings == 2
MaxSamples == 2
MaxRecs == 2
MaxPieces == 3
MaxDepth == 3
MaxUsersW == 2
MaxFetches == 3

Slots == {1}

\* --------------------------------------------------------------- strings

UpperCase == <<"A", "B", "J", "S", "O", "N">>

LowerCase == <<"a", "b", "j", "s", "o", "n">>

Lower(c) ==
  IF \E i \in 1..Len(UpperCase) : UpperCase[i] = c
    THEN LowerCase[CHOOSE i \in 1..Len(UpperCase) : UpperCase[i] = c]
    ELSE c

ToLowerCase(s) == [i \in 1..Len(s) |-> Lower(s[i])]

RECURSIVE TrimStart(_)
TrimStart(s) == IF s # <<>> /\ Head(s) = " " THEN TrimStart(Tail(s)) ELSE s

RECURSIVE TrimEnd(_)
TrimEnd(s) ==
  IF s # <<>> /\ s[Len(s)] = " " THEN TrimEnd(SubSeq(s, 1, Len(s) - 1)) ELSE s

Trim(s) == TrimEnd(TrimStart(s))

\* --------------------------------------------------------------- user model

Undef == "undefined"
Null == "null"

NoHash == [t |-> "undefined"]

\* the schema's setters on email: lowercase: true, trim: true
EmailSetter(e) == Trim(ToLowerCase(e))

\* faulty variant: the email stored as submitted, the schema's setters not applied
NewUserDoc_Raw(provider, email, hash, auth0Id) ==
  [authProvider |-> provider,
   email        |-> email,
   passwordHash |-> hash,
   auth0Id      |-> auth0Id,
   role         |-> "user",
   fcmToken     |-> Null]

\* new UserModel({...}): setters and defaults applied
NewUserDoc(provider, email, hash, auth0Id) ==
  [authProvider |-> provider,
   email        |-> EmailSetter(email),
   passwordHash |-> hash,
   auth0Id      |-> auth0Id,
   role         |-> "user",
   fcmToken     |-> Null]

\* document validation run by save()
Validates(doc) ==
  /\ doc.authProvider \in {"auth0", "local"}
  /\ doc.email # <<>>
  /\ (doc.authProvider = "local" => doc.passwordHash # NoHash)
  /\ (doc.authProvider = "auth0" => doc.auth0Id # Undef)

\* faulty variant: the email field without its unique index
EmailTaken_NoIndex(us, e) == FALSE

\* the unique index on email
EmailTaken(us, e) == \E i \in 1..Len(us) : us[i].email = e

\* save(): "ok", or the error it throws
SaveResult(us, doc) ==
  IF ~Validates(doc) THEN "ValidationError"
  ELSE IF EmailTaken(us, doc.email) THEN "E11000"
  ELSE "ok"

Min(S) == CHOOSE x \in S : \A y \in S : x <= y

\* findOne: the _id of the first match, 0 for null
First(S) == IF S = {} THEN 0 ELSE Min(S)

\* UserModel.findOne({ email }): the filter is cast with the schema's setters
FindByEmail(us, e) ==
  First({i \in 1..Len(us) : us[i].email = EmailSetter(e)})

\* UserModel.findOne({ email, authProvider: "local" })
FindLocalByEmail(us, e) ==
  First({i \in 1..Len(us) :
           us[i].email = EmailSetter(e) /\ us[i].authProvider = "local"})

\* UserModel.findOne({ auth0Id, authProvider: "auth0" })
FindByAuth0Id(us, sub) ==
  First({i \in 1..Len(us) :
           us[i].auth0Id = sub /\ us[i].authProvider = "auth0"})

\* ------------------------------------------------------------------ bcrypt

SaltRounds == 12

Salts == {"s1"}

BcryptHash(pw, salt) ==
  [t |-> "bcrypt", cost |-> SaltRounds, salt |-> salt, key |-> pw]

BcryptCompare(pw, h) == h = BcryptHash(pw, h.salt)

\* --------------------------------------------------------------------- JWT

JWT_SECRET == "JWT_SECRET"

NoToken == [t |-> "none"]

NoClaims == [t |-> "undefined"]

Word(w) == [t |-> "word", text |-> w]

\* faulty variant: the provider claim written as a constant
signToken_LocalProvider(id, user) ==
  [t        |-> "jwt",
   sub      |-> id,
   email    |-> user.email,
   role     |-> user.role,
   provider |-> "local",
   key      |-> JWT_SECRET,
   expired  |-> FALSE]

signToken(id, user) ==
  [t        |-> "jwt",
   sub      |-> id,
   email    |-> user.email,
   role     |-> user.role,
   provider |-> user.authProvider,
   key      |-> JWT_SECRET,
   expired  |-> FALSE]

\* faulty variant: the payload decoded without checking the signature
JwtVerifies_NoSignature(tok) ==
  /\ tok.t = "jwt"
  /\ ~tok.expired

\* jwt.verify(token, secret): TRUE when it returns, FALSE when it throws
JwtVerifies(tok) ==
  /\ tok.t = "jwt"
  /\ tok.key = JWT_SECRET
  /\ ~tok.expired

\* the decoded payload
Decoded(tok) ==
  [t |-> "claims", sub |-> tok.sub, email |-> tok.email, role |-> tok.role,
   provider |-> tok.provider]

\* ---------------------------------------------------------------- requests

NoOidc == [auth |-> FALSE, sub |-> Undef, email |-> <<>>]

NoDoc == [t |-> "none"]

\* req.body.sampleId: absent, a well-formed ObjectId, or any other string
NoId == [t |-> "undefined", n |-> 0]

ObjectId(k) == [t |-> "ObjectId", n |-> k]

BadId == [t |-> "string", n |-> 0]

NoBody == [error |-> "", token |-> NoToken, uid |-> 0, uemail |-> <<>>]

NoReq ==
  [route    |-> "none",
   pc       |-> "idle",
   hdr      |-> <<>>,
   email    |-> <<>>,
   password |-> "",
   oidc     |-> NoOidc,
   user     |-> NoClaims,
   found    |-> 0,
   doc      |-> NoDoc,
   status   |-> 0,
   body     |-> NoBody,
   nresp    |-> 0,
   nnext    |-> 0,
   nerr     |-> 0,
   field    |-> <<>>,
   signed   |-> 0,
   aiCalls  |-> 0,
   httpCalls |-> 0,
   aiText   |-> <<>>,
   lat      |-> <<>>,
   lon      |-> <<>>,
   reading  |-> NoDoc,
   message  |-> <<>>,
   targets  |-> <<>>,
   fcmLog   |-> <<>>,
   finds    |-> 0,
   inflight |-> 0,
   location |-> <<>>,
   prompt   |-> <<>>,
   userId   |-> <<>>,
   crop     |-> <<>>,
   sampleId |-> NoId,
   sample   |-> 0,
   json     |-> <<>>,
   stripped |-> <<>>,
   again    |-> <<>>,
   parsed   |-> <<>>,
   upstream |-> NoDoc,
   db0      |-> [users |-> <<>>, readings |-> <<>>, samples |-> <<>>,
                recs |-> <<>>]]

\* a request as it arrives; db0 remembers the collections at that moment
\* (history only: no handler reads it)
Arrive(q) ==
  [q EXCEPT !.db0 = [users |-> users, readings |-> readings,
                     samples |-> samples, recs |-> recs]]

\* res.status(s).json(b)
Respond(q, s, b) ==
  [q EXCEPT !.status = s, !.body = b, !.nresp = @ + 1, !.pc = "done"]

ErrorBody(msg) == [NoBody EXCEPT !.error = msg]

\* res.json({ token, user: { id, email, name } }) after signToken(user)
TokenResponse(q, id, user) ==
  [Respond(q, 200,
           [error |-> "", token |-> signToken(id, user), uid |-> id,
            uemail |-> user.email])
     EXCEPT !.signed = @ + 1]

\* faulty variant: the error is logged and no response is sent
ErrorMiddleware_LogOnly(q, msg) == [q EXCEPT !.pc = "hung"]

\* the top-level error middleware: 500 with the error's message
ErrorMiddleware(q, msg) == Respond(q, 500, ErrorBody(msg))

\* asyncHandler: what the wrapped handler throws is passed to next(err),
\* which reaches the error middleware
ErrorHandler(q, msg) == ErrorMiddleware([q EXCEPT !.nerr = @ + 1], msg)

Idle(r) == req[r].pc \in {"idle", "done"}

Emails == {<<"a">>, <<"A">>, <<" ", "a">>, <<" ">>, <<"b">>, <<>>}

Passwords == {"p1", "p2", ""}

\* -------------------------------------------------------------- verifyJWT

\* faulty variant: only !authHeader, the "Bearer " prefix not checked
MissingBearer_NoPrefix(hdr) ==
  \/ hdr = <<>>
  \/ hdr = <<Word("")>>

\* !authHeader || !authHeader.startsWith("Bearer "): the header is absent
\* (no words), the empty string (one empty word), or its first word is not
\* "Bearer" followed by a space
MissingBearer(hdr) ==
  \/ hdr = <<>>
  \/ hdr = <<Word("")>>
  \/ ~(Len(hdr) >= 2 /\ hdr[1] = Word("Bearer"))

\* authHeader.split(" ")[1]: undefined when there is no second word
BearerToken(hdr) == IF Len(hdr) >= 2 THEN hdr[2] ELSE Word(Undef)

verifyJWT(r) ==
  /\ req[r].pc = "verifyJWT"
  /\ LET q == req[r] IN
       req' = [req EXCEPT ![r] =
         IF MissingBearer(q.hdr)
           THEN Respond(q, 401, ErrorBody("Missing token"))
         ELSE IF JwtVerifies(BearerToken(q.hdr))
           THEN [q EXCEPT !.user = Decoded(BearerToken(q.hdr)),
                          !.nnext = @ + 1, !.pc = "handler"]
         ELSE Respond(q, 401, ErrorBody("Invalid token"))]
  /\ UNCHANGED <<users, readings, samples, recs, alerts, forecasts, table>>

\* the tokens a client may present: issued by this server for user 1 or 2,
\* signed with another key, expired, or not a JWT at all
IssuedToken(id) ==
  [t |-> "jwt", sub |-> id, email |-> <<"a">>, role |-> "user",
   provider |-> "local", key |-> JWT_SECRET, expired |-> FALSE]

ForgedToken == [IssuedToken(1) EXCEPT !.key = "other"]

ExpiredToken == [IssuedToken(1) EXCEPT !.expired = TRUE]

ClientTokens == {IssuedToken(1), IssuedToken(2), ForgedToken, ExpiredToken,
                 Word("junk")}

Headers ==
  {<<>>, <<Word("")>>, <<Word("Bearer")>>,
   <<Word("Basic"), IssuedToken(1)>>,
   <<Word("bearer"), IssuedToken(1)>>,
   <<Word("Bearer"), Word("")>>,
   <<Word("Bearer"), Word(""), IssuedToken(1)>>,
   <<Word("Bearer"), IssuedToken(1), Word("x")>>}
  \cup {<<Word("Bearer"), tok>> : tok \in ClientTokens}

\* ------------------------------------------------------------------ routes

\* authRouter: the handler each route is wired to
AuthHandler(route) ==
  CASE route = "register" -> "register"
    [] route = "login"    -> "login"
    [] route = "auth0"    -> "auth0_redirect"
    [] route = "profile"  -> "register"
    [] OTHER              -> "none"

AtHandler(r, h) ==
  /\ req[r].pc = "handler"
  /\ AuthHandler(req[r].route) = h

BeginRegister(r) ==
  /\ Idle(r)
  /\ \E e \in Emails, p \in Passwords :
       req' = [req EXCEPT ![r] =
                 Arrive([NoReq EXCEPT !.route = "register", !.pc = "handler",
                               !.email = e, !.password = p])]
  /\ UNCHANGED <<users, readings, samples, recs, alerts, forecasts, table>>

BeginLogin(r) ==
  /\ Idle(r)
  /\ \E e \in Emails, p \in Passwords :
       req' = [req EXCEPT ![r] =
                 Arrive([NoReq EXCEPT !.route = "login", !.pc = "handler",
                               !.email = e, !.password = p])]
  /\ UNCHANGED <<users, readings, samples, recs, alerts, forecasts, table>>

OidcSessions ==
  {NoOidc} \cup
  [auth : {TRUE}, sub : {"s1", "s2"}, email : {<<"a">>, <<"B">>, <<>>}]

BeginAuth0(r) ==
  /\ Idle(r)
  /\ \E o \in OidcSessions :
       req' = [req EXCEPT ![r] =
                 Arrive([NoReq EXCEPT !.route = "auth0", !.pc = "handler",
                               !.oidc = o])]
  /\ UNCHANGED <<users, readings, samples, recs, alerts, forecasts, table>>

\* GET /profile: verifyJWT first; a JSON body, if sent, is parsed as usual
BeginProfile(r) ==
  /\ Idle(r)
  /\ \E h \in Headers, e \in Emails, p \in Passwords :
       req' = [req EXCEPT ![r] =
                 Arrive([NoReq EXCEPT !.route = "profile", !.pc = "verifyJWT",
                               !.hdr = h, !.email = e, !.password = p])]
  /\ UNCHANGED <<users, readings, samples, recs, alerts, forecasts, table>>

\* ---------------------------------------------------------------- register

RegisterStart(r) ==
  /\ AtHandler(r, "register")
  /\ LET q == req[r] IN
       req' = [req EXCEPT ![r] =
         IF q.email = <<>> \/ q.password = ""
           THEN Respond(q, 400, ErrorBody("Email and password required"))
           ELSE [q EXCEPT !.pc = "reg_findOne"]]
  /\ UNCHANGED <<users, readings, samples, recs, alerts, forecasts, table>>

RegisterFindOne(r) ==
  /\ req[r].pc = "reg_findOne"
  /\ LET q == req[r]
         existing == FindByEmail(users, ToLowerCase(q.email))
     IN req' = [req EXCEPT ![r] =
          IF existing # 0
            THEN Respond(q, 400, ErrorBody("Email already registered"))
            ELSE [q EXCEPT !.pc = "reg_hash"]]
  /\ UNCHANGED <<users, readings, samples, recs, alerts, forecasts, table>>

RegisterHash(r) ==
  /\ req[r].pc = "reg_hash"
  /\ \E salt \in Salts :
       LET q == req[r]
           passwordHash == BcryptHash(q.password, salt)
       IN req' = [req EXCEPT ![r] =
            [q EXCEPT !.doc = NewUserDoc("local", ToLowerCase(q.email),
                                         passwordHash, Undef),
                      !.pc = "reg_save"]]
  /\ UNCHANGED <<users, readings, samples, recs, alerts, forecasts, table>>

RegisterSave(r) ==
  /\ req[r].pc = "reg_save"
  /\ LET q == req[r]
         result == SaveResult(users, q.doc)
     IN IF result = "ok"
          THEN /\ users' = Append(users, q.doc)
               /\ req' = [req EXCEPT ![r] =
                            TokenResponse(q, Len(users) + 1, q.doc)]
          ELSE /\ users' = users
               /\ req' = [req EXCEPT ![r] = ErrorHandler(q, result)]
  /\ UNCHANGED <<readings, samples, recs, alerts, forecasts, table>>

\* ------------------------------------------------------------------- login

LoginStart(r) ==
  /\ AtHandler(r, "login")
  /\ LET q == req[r] IN
       req' = [req EXCEPT ![r] =
         IF q.email = <<>> \/ q.password = ""
           THEN Respond(q, 400, ErrorBody("Email and password required"))
           ELSE [q EXCEPT !.pc = "login_findOne"]]
  /\ UNCHANGED <<users, readings, samples, recs, alerts, forecasts, table>>

\* faulty variant: an unknown email answered 404 "User not found"
LoginFindOne_NotFound(r) ==
  /\ req[r].pc = "login_findOne"
  /\ LET q == req[r]
         user == FindLocalByEmail(users, ToLowerCase(q.email))
     IN req' = [req EXCEPT ![r] =
          IF user = 0
            THEN Respond(q, 404, ErrorBody("User not found"))
            ELSE [q EXCEPT !.found = user, !.doc = users[user],
                           !.pc = "login_compare"]]
  /\ UNCHANGED <<users, readings, samples, recs, alerts, forecasts, table>>

LoginFindOne(r) ==
  /\ req[r].pc = "login_findOne"
  /\ LET q == req[r]
         user == FindLocalByEmail(users, ToLowerCase(q.email))
     IN req' = [req EXCEPT ![r] =
          IF user = 0
            THEN Respond(q, 401, ErrorBody("Invalid credentials"))
            ELSE [q EXCEPT !.found = user, !.doc = users[user],
                           !.pc = "login_compare"]]
  /\ UNCHANGED <<users, readings, samples, recs, alerts, forecasts, table>>

\* faulty variant: the result of bcrypt.compare not checked
LoginCompare_NoCheck(r) ==
  /\ req[r].pc = "login_compare"
  /\ req' = [req EXCEPT ![r] = TokenResponse(req[r], req[r].found, req[r].doc)]
  /\ UNCHANGED <<users, readings, samples, recs, alerts, forecasts, table>>

LoginCompare(r) ==
  /\ req[r].pc = "login_compare"
  /\ LET q == req[r]
         ok == BcryptCompare(q.password, q.doc.passwordHash)
     IN req' = [req EXCEPT ![r] =
          IF ~ok
            THEN Respond(q, 401, ErrorBody("Invalid credentials"))
            ELSE TokenResponse(q, q.found, q.doc)]
  /\ UNCHANGED <<users, readings, samples, recs, alerts, forecasts, table>>

\* ---------------------------------------------------------- auth0_redirect

Auth0Start(r) ==
  /\ AtHandler(r, "auth0_redirect")
  /\ LET q == req[r] IN
       req' = [req EXCEPT ![r] =
         IF ~q.oidc.auth
           THEN Respond(q, 401, ErrorBody("Not authenticated with Auth0"))
           ELSE [q EXCEPT !.pc = "a0_findSub"]]
  /\ UNCHANGED <<users, readings, samples, recs, alerts, forecasts, table>>

Auth0FindBySub(r) ==
  /\ req[r].pc = "a0_findSub"
  /\ LET q == req[r]
         user == FindByAuth0Id(users, q.oidc.sub)
     IN req' = [req EXCEPT ![r] =
          IF user # 0
            THEN TokenResponse(q, user, users[user])
            ELSE [q EXCEPT !.pc = "a0_findEmail"]]
  /\ UNCHANGED <<users, readings, samples, recs, alerts, forecasts, table>>

\* faulty variant: no lookup by email, the new auth0 record is saved right away
Auth0FindByEmail_NoCheck(r) ==
  /\ req[r].pc = "a0_findEmail"
  /\ LET q == req[r]
         email == ToLowerCase(q.oidc.email)
     IN req' = [req EXCEPT ![r] =
          [q EXCEPT !.doc = NewUserDoc("auth0", email, NoHash, q.oidc.sub),
                    !.pc = "a0_save"]]
  /\ UNCHANGED <<users, readings, samples, recs, alerts, forecasts, table>>

\* faulty variant: the existing account is linked, auth0Id attached to its record
Auth0FindByEmail_Link(r) ==
  /\ req[r].pc = "a0_findEmail"
  /\ LET q == req[r]
         email == ToLowerCase(q.oidc.email)
         existingLocal == FindByEmail(users, email)
     IN IF existingLocal # 0
          THEN /\ users' = [users EXCEPT ![existingLocal].auth0Id = q.oidc.sub]
               /\ req' = [req EXCEPT ![r] =
                            TokenResponse(q, existingLocal,
                                          users'[existingLocal])]
          ELSE /\ users' = users
               /\ req' = [req EXCEPT ![r] =
                    [q EXCEPT !.doc = NewUserDoc("auth0", email, NoHash,
                                                 q.oidc.sub),
                              !.pc = "a0_save"]]
  /\ UNCHANGED <<readings, samples, recs, alerts, forecasts, table>>

Auth0FindByEmail(r) ==
  /\ req[r].pc = "a0_findEmail"
  /\ LET q == req[r]
         email == ToLowerCase(q.oidc.email)
         existingLocal == FindByEmail(users, email)
     IN req' = [req EXCEPT ![r] =
          IF existingLocal # 0
            THEN Respond(q, 409, ErrorBody("An account with this email already exists as local"))
            ELSE [q EXCEPT !.doc = NewUserDoc("auth0", email, NoHash,
                                              q.oidc.sub),
                           !.pc = "a0_save"]]
  /\ UNCHANGED <<users, readings, samples, recs, alerts, forecasts, table>>

Auth0Save(r) ==
  /\ req[r].pc = "a0_save"
  /\ LET q == req[r]
         result == SaveResult(users, q.doc)
     IN IF result = "ok"
          THEN /\ users' = Append(users, q.doc)
               /\ req' = [req EXCEPT ![r] =
                            TokenResponse(q, Len(users) + 1, q.doc)]
          ELSE /\ users' = users
               /\ req' = [req EXCEPT ![r] = ErrorHandler(q, result)]
  /\ UNCHANGED <<readings, samples, recs, alerts, forecasts, table>>

\* --------------------------------------------------------- MarketTable view

\* the dates of the date input; the component starts on the first
Dates == {"d0", "d1", "d2"}

\* response.data.data of the trade-data POST for a date: the rows of that day
TradeData(date) == <<[created_at |-> date]>>

\* the component after its first render and the first run of the effect:
\* setLoading(true) and the POST for the initial dateFilter sent
TableMounted ==
  /\ enamData = <<>>
  /\ loading = TRUE
  /\ error = Null
  /\ dateFilter = "d0"
  /\ pending = {[id |-> 1, date |-> "d0"]}
  /\ fetches = 1

\* onChange of the date input: setDateFilter(e.target.value); the effect on
\* [dateFilter] then runs fetchEnamData up to its await: setLoading(true)
\* and the POST with fromDate = toDate = dateFilter
SetDateFilter(date) ==
  /\ date # dateFilter
  /\ fetches < MaxFetches
  /\ dateFilter' = date
  /\ loading' = TRUE
  /\ fetches' = fetches + 1
  /\ pending' = pending \cup {[id |-> fetches + 1, date |-> date]}
  /\ UNCHANGED <<enamData, error>>
  /\ UNCHANGED <<users, readings, samples, recs, alerts, forecasts, req>>

\* a POST resolves: setEnamData(response.data.data), setError(null), and
\* finally setLoading(false)
FetchResolved(p) ==
  /\ p \in pending
  /\ pending' = pending \ {p}
  /\ enamData' = TradeData(p.date)
  /\ error' = Null
  /\ loading' = FALSE
  /\ UNCHANGED <<dateFilter, fetches>>
  /\ UNCHANGED <<users, readings, samples, recs, alerts, forecasts, req>>

\* a POST rejects: setError(err.message), and finally setLoading(false)
FetchRejected(p) ==
  /\ p \in pending
  /\ pending' = pending \ {p}
  /\ error' = "Network Error"
  /\ loading' = FALSE
  /\ UNCHANGED <<enamData, dateFilter, fetches>>
  /\ UNCHANGED <<users, readings, samples, recs, alerts, forecasts, req>>

InitTable ==
  /\ users = <<>>
  /\ readings = <<>>
  /\ samples = <<>>
  /\ recs = <<>>
  /\ alerts = <<>>
  /\ forecasts = <<>>
  /\ req = [r \in Slots |-> NoReq]
  /\ TableMounted

NextTable ==
  \/ \E date \in Dates : SetDateFilter(date)
  \/ \E p \in pending : FetchResolved(p)
  \/ \E p \in pending : FetchRejected(p)

SpecTable == InitTable /\ [][NextTable]_vars

\* ----------------------------------------------------- the auth specification

Init ==
  /\ users = <<>>
  /\ readings = <<>>
  /\ samples = <<>>
  /\ recs = <<>>
  /\ alerts = <<>>
  /\ forecasts = <<>>
  /\ TableMounted
  /\ req = [r \in Slots |-> NoReq]

Next ==
  \E r \in Slots :
    \/ BeginRegister(r)
    \/ BeginLogin(r)
    \/ BeginAuth0(r)
    \/ BeginProfile(r)
    \/ verifyJWT(r)
    \/ RegisterStart(r)
    \/ RegisterFindOne(r)
    \/ RegisterHash(r)
    \/ RegisterSave(r)
    \/ LoginStart(r)
    \/ LoginFindOne(r)
    \/ LoginCompare(r)
    \/ Auth0Start(r)
    \/ Auth0FindBySub(r)
    \/ Auth0FindByEmail(r)
    \/ Auth0Save(r)

Spec == Init /\ [][Next]_vars

\* ------------------------------------------ two requests in flight at once

\* Node runs one handler step at a time, and a handler gives way at every
\* await: two requests interleave at exactly the step boundaries above.
ConcSlots == {1, 2}

ConcEmails == {<<"a">>, <<"A">>, <<"b">>}

ConcSessions == [auth : {TRUE}, sub : {"s1", "s2"}, email : {<<"a">>, <<"B">>}]

\* POST /register arriving while the other slot may be mid-request
ConcRegister(r) ==
  /\ Idle(r)
  /\ \E e \in ConcEmails :
       req' = [req EXCEPT ![r] =
                 Arrive([NoReq EXCEPT !.route = "register", !.pc = "handler",
                               !.email = e, !.password = "p1"])]
  /\ UNCHANGED <<users, readings, samples, recs, alerts, forecasts, table>>

\* GET /auth0_redirect arriving while the other slot may be mid-request
ConcAuth0(r) ==
  /\ Idle(r)
  /\ \E o \in ConcSessions :
       req' = [req EXCEPT ![r] =
                 Arrive([NoReq EXCEPT !.route = "auth0", !.pc = "handler",
                               !.oidc = o])]
  /\ UNCHANGED <<users, readings, samples, recs, alerts, forecasts, table>>

InitConc ==
  /\ users = <<>>
  /\ readings = <<>>
  /\ samples = <<>>
  /\ recs = <<>>
  /\ alerts = <<>>
  /\ forecasts = <<>>
  /\ TableMounted
  /\ req = [r \in ConcSlots |-> NoReq]

NextConc ==
  \E r \in ConcSlots :
    \/ ConcRegister(r)
    \/ ConcAuth0(r)
    \/ RegisterStart(r)
    \/ RegisterFindOne(r)
    \/ RegisterHash(r)
    \/ RegisterSave(r)
    \/ Auth0Start(r)
    \/ Auth0FindBySub(r)
    \/ Auth0FindByEmail(r)
    \/ Auth0Save(r)

SpecConc == InitConc /\ [][NextConc]_vars

\* -------------------------------------------------- soil health generation

\* obj.field of a JavaScript object: <<value>>, or <<>> for undefined
Get(obj, field) == IF field \in DOMAIN obj THEN <<obj[field]>> ELSE <<>>

StartsWith(s, pat) == Len(s) >= Len(pat) /\ SubSeq(s, 1, Len(pat)) = pat

Drop(s, n) == SubSeq(s, n + 1, Len(s))

\* s.replace(/pat/g, ""): the matches removed in one pass from the left;
\* ci: the i flag
RECURSIVE ReplaceAll(_, _, _)
ReplaceAll(s, pat, ci) ==
  IF s = <<>> THEN <<>>
  ELSE IF StartsWith(IF ci THEN ToLowerCase(s) ELSE s, pat)
    THEN ReplaceAll(Drop(s, Len(pat)), pat, ci)
  ELSE <<Head(s)>> \o ReplaceAll(Tail(s), pat, ci)

\* the backtick character
Tick == "tick"

Fence == <<Tick, Tick, Tick>>

JsonWord == <<"j", "s", "o", "n">>

\* text.trim(), then every fence followed by json (any case) removed, then
\* every fence, then trim()
StripFences(text) ==
  Trim(ReplaceAll(ReplaceAll(Trim(text), Fence \o JsonWord, TRUE),
                  Fence, FALSE))

\* The JSON texts of the model: an object is written { m1 m2 ... }, each
\* member ("key": value) one character. a, b: soil measurements; cMid, cHigh:
\* "confidence": 0.5 and 1.5; sid: "sampleId" naming some other sample; pBad:
\* "provider" outside the schema's enum; the backtick and the letters of
\* json: characters inside a string value.
JsonMembers ==
  {"a", "b", "cMid", "cHigh", "sid", "pBad", Tick, "j", "s", "o", "n"}

Range(f) == {f[i] : i \in DOMAIN f}

\* faulty variant: a parser that repairs a missing closing brace
JsonParse_Repair(text) ==
  LET t == Trim(text) IN
    IF Len(t) >= 1 /\ t[1] = "{"
         /\ Range(SubSeq(t, 2, Len(t))) \subseteq JsonMembers \cup {"}"}
      THEN <<SelectSeq(SubSeq(t, 2, Len(t)), LAMBDA c : c # "}")>>
      ELSE <<>>

\* JSON.parse(text): <<the members of the object>>, or <<>> when it throws
JsonParse(text) ==
  LET t == Trim(text) IN
    IF Len(t) >= 2 /\ t[1] = "{" /\ t[Len(t)] = "}"
         /\ Range(SubSeq(t, 2, Len(t) - 1)) \subseteq JsonMembers
      THEN <<SubSeq(t, 2, Len(t) - 1)>>
      ELSE <<>>

JA == <<"{", "a", "}">>

JB == <<"{", "b", "}">>

\* answers that are not JSON even with the fences removed
BadTexts ==
  {<<"{", "a">>,
   <<"o", "n", " ">> \o JA,
   Fence \o JsonWord \o <<"{", "cMid">> \o Fence}

\* what the generative model may answer to the soil prompt
AiTexts ==
  {JA,
   <<" ">> \o JB \o <<" ">>,
   Fence \o JsonWord \o <<" ">> \o JA \o <<" ">> \o Fence,
   Fence \o <<"J", "S", "O", "N">> \o JB \o Fence,
   Fence \o JA \o Fence}
  \cup BadTexts

BeginGetSoilInfo(r) ==
  /\ Idle(r)
  /\ Len(samples) < MaxSamples
  /\ \E h \in Headers :
       req' = [req EXCEPT ![r] =
                 Arrive([NoReq EXCEPT !.route = "getSoilInfo",
                                      !.pc = "verifyJWT", !.hdr = h,
                                      !.location = <<"Pune">>])]
  /\ UNCHANGED <<users, readings, samples, recs, alerts, forecasts, table>>

\* getSoilInfo calls generateSoilHealth(req.location, req.user._id), which
\* builds the prompt and awaits genModel.generateContent(prompt)
SoilStart(r) ==
  /\ req[r].pc = "handler"
  /\ req[r].route = "getSoilInfo"
  /\ LET q == req[r]
         location == <<>>                  \* req.location: never set
         userId == Get(q.user, "_id")
     IN req' = [req EXCEPT ![r] =
          [q EXCEPT !.prompt = location, !.userId = userId,
                    !.aiCalls = @ + 1, !.pc = "soil_generate"]]
  /\ UNCHANGED <<users, readings, samples, recs, alerts, forecasts, table>>

\* the model answers (or the call throws); the text is stripped and parsed
SoilGenerated(r) ==
  /\ req[r].pc = "soil_generate"
  /\ LET q == req[r] IN
       \/ req' = [req EXCEPT ![r] = ErrorHandler(q, "generateContent failed")]
       \/ \E text \in AiTexts :
            LET soilData == JsonParse(StripFences(text)) IN
              req' = [req EXCEPT ![r] =
                IF soilData = <<>>
                  THEN ErrorHandler([q EXCEPT !.aiText = text], "SyntaxError")
                  ELSE [q EXCEPT !.aiText = text,
                                 !.doc = [farmerId |-> q.userId,
                                          data |-> soilData[1]],
                                 !.pc = "soil_save"]]
  /\ UNCHANGED <<users, readings, samples, recs, alerts, forecasts, table>>

\* soilSample.save() and res.status(200).json(data)
SoilSaved(r) ==
  /\ req[r].pc = "soil_save"
  /\ samples' = Append(samples, req[r].doc)
  /\ req' = [req EXCEPT ![r] =
               Respond(req[r], 200, [error |-> "", sample |-> req[r].doc])]
  /\ UNCHANGED <<users, readings, recs, alerts, forecasts, table>>

\* ------------------------------------------------- the fence-stripping step

\* The stripping and parsing of lines 32-46 (and 85-98) on its own: texts put
\* together from a few pieces, bare or wrapped in a fence.
Pieces ==
  {<<Tick>>, <<Tick, Tick>>, Fence, Fence \o JsonWord, <<"a">>, <<"j">>,
   <<" ">>}

RECURSIVE Texts(_)
Texts(n) ==
  IF n = 0 THEN {<<>>}
  ELSE Texts(n - 1) \cup {p \o t : p \in Pieces, t \in Texts(n - 1)}

Wrappers == {"none", "json", "JSON", "tight", "bare"}

\* the text j as the model may fence it
Wrap(w, j) ==
  CASE w = "none"  -> j
    [] w = "json"  -> Fence \o JsonWord \o <<" ">> \o j \o <<" ">> \o Fence
    [] w = "JSON"  -> Fence \o <<"J", "S", "O", "N", " ">> \o j \o <<" ">>
                        \o Fence
    [] w = "tight" -> Fence \o JsonWord \o j \o Fence
    [] w = "bare"  -> Fence \o <<" ">> \o j \o <<" ">> \o Fence

InitStrip ==
  /\ users = <<>>
  /\ readings = <<>>
  /\ samples = <<>>
  /\ recs = <<>>
  /\ alerts = <<>>
  /\ forecasts = <<>>
  /\ TableMounted
  /\ \E body \in Texts(MaxPieces) :
       \/ req = [r \in Slots |->
                   [NoReq EXCEPT !.route = "stripFences", !.pc = "strip",
                                 !.aiText = body]]
       \/ \E w \in Wrappers :
            LET j == <<"{">> \o body \o <<"}">> IN
              req = [r \in Slots |->
                       [NoReq EXCEPT !.route = "stripFences", !.pc = "strip",
                                     !.json = j, !.aiText = Wrap(w, j)]]

\* text.trim().replace(...).replace(...).trim(), then JSON.parse(text)
StripAndParse(r) ==
  /\ req[r].pc = "strip"
  /\ LET text == StripFences(req[r].aiText) IN
       req' = [req EXCEPT ![r] =
                 [req[r] EXCEPT !.stripped = text, !.parsed = JsonParse(text),
                                !.pc = "stripped"]]
  /\ UNCHANGED <<users, readings, samples, recs, alerts, forecasts, table>>

\* the stripping applied to its own result
StripAgain(r) ==
  /\ req[r].pc = "stripped"
  /\ req' = [req EXCEPT ![r] =
               [req[r] EXCEPT !.again = StripFences(req[r].stripped),
                              !.pc = "done"]]
  /\ UNCHANGED <<users, readings, samples, recs, alerts, forecasts, table>>

NextStrip ==
  \E r \in Slots :
    \/ StripAndParse(r)
    \/ StripAgain(r)

SpecStrip == InitStrip /\ [][NextStrip]_vars

\* ------------------------------------------------ fertilizer recommendation

\* the confidence member of a parsed object, in hundredths: <<>> when absent
Confidence(obj) ==
  IF "cHigh" \in Range(obj) THEN <<150>>
  ELSE IF "cMid" \in Range(obj) THEN <<50>>
  ELSE <<>>

\* the provider member; the schema's default when absent
Provider(obj) == IF "pBad" \in Range(obj) THEN "llm" ELSE "ml"

\* the sampleId member of the model's output, <<>> when absent
OutputSampleId(obj) == IF "sid" \in Range(obj) THEN <<ObjectId(9)>> ELSE <<>>

\* faulty variant: a sampleId in the model's output is kept
NewRecommendation_KeepOutputId(obj, sampleId) ==
  [sampleId   |-> IF OutputSampleId(obj) # <<>> THEN OutputSampleId(obj)[1]
                  ELSE sampleId,
   provider   |-> Provider(obj),
   confidence |-> Confidence(obj)]

\* recommendation.sampleId = sample._id;
\* new FertilizerRecommendationModel(recommendation)
NewRecommendation(obj, sampleId) ==
  [sampleId   |-> sampleId,
   provider   |-> Provider(obj),
   confidence |-> Confidence(obj)]

\* validation run by recDoc.save(): provider has an enum, confidence is any
\* Number
RecValidates(doc) == doc.provider \in {"rule", "ml"}

\* SoilHealthModel.findById(id): the _id found, 0 for null; findById(undefined)
\* looks for _id null
FindById(coll, id) ==
  IF id.t = "ObjectId" /\ id.n \in 1..Len(coll) THEN id.n ELSE 0

Crops == {<<>>, <<"wheat">>}

SampleIds == {NoId, BadId, ObjectId(1), ObjectId(2), ObjectId(9)}

\* what the generative model may answer to the fertilizer prompt
RecTexts ==
  {<<"{", "cMid", "}">>,
   Fence \o JsonWord \o <<" ", "{", "cHigh", "}", " ">> \o Fence,
   <<"{", "sid", "cMid", "}">>,
   <<"{", "cMid", "pBad", "}">>}
  \cup BadTexts

\* POST /recommendFertilizerGuidelines: no middleware before the handler
BeginRecommend(r) ==
  /\ Idle(r)
  /\ Len(recs) < MaxRecs
  /\ \E c \in Crops, id \in SampleIds :
       req' = [req EXCEPT ![r] =
                 Arrive([NoReq EXCEPT
                           !.route = "recommendFertilizerGuidelines",
                           !.pc = "handler", !.crop = c, !.sampleId = id])]
  /\ UNCHANGED <<users, readings, samples, recs, alerts, forecasts, table>>

\* const { crop, sampleId } = req.body; await SoilHealthModel.findById(sampleId)
RecommendStart(r) ==
  /\ req[r].pc = "handler"
  /\ req[r].route = "recommendFertilizerGuidelines"
  /\ req' = [req EXCEPT ![r].pc = "rec_findById"]
  /\ UNCHANGED <<users, readings, samples, recs, alerts, forecasts, table>>

\* findById settles: a string that is no ObjectId makes it throw; then the
\* check on sample and crop, and generateFertilizerRecommendation up to its
\* await genModel.generateContent(prompt)
RecommendFindById(r) ==
  /\ req[r].pc = "rec_findById"
  /\ LET q == req[r]
         sample == FindById(samples, q.sampleId)
     IN req' = [req EXCEPT ![r] =
          IF q.sampleId = BadId
            THEN ErrorHandler(q, "CastError")
          ELSE IF sample = 0 \/ q.crop = <<>>
            THEN Respond(q, 400, ErrorBody("Sample data and crop required"))
          ELSE [q EXCEPT !.sample = sample, !.prompt = q.crop,
                         !.aiCalls = @ + 1, !.pc = "rec_generate"]]
  /\ UNCHANGED <<users, readings, samples, recs, alerts, forecasts, table>>

\* the model answers (or the call throws); the text is stripped and parsed
RecommendGenerated(r) ==
  /\ req[r].pc = "rec_generate"
  /\ LET q == req[r] IN
       \/ req' = [req EXCEPT ![r] = ErrorHandler(q, "generateContent failed")]
       \/ \E text \in RecTexts :
            LET recommendation == JsonParse(StripFences(text)) IN
              req' = [req EXCEPT ![r] =
                IF recommendation = <<>>
                  THEN ErrorHandler([q EXCEPT !.aiText = text], "SyntaxError")
                  ELSE [q EXCEPT !.aiText = text,
                                 !.doc = NewRecommendation(recommendation[1],
                                                           ObjectId(q.sample)),
                                 !.pc = "rec_save"]]
  /\ UNCHANGED <<users, readings, samples, recs, alerts, forecasts, table>>

\* recDoc.save() and res.status(200).json(recommendation)
RecommendSaved(r) ==
  /\ req[r].pc = "rec_save"
  /\ LET q == req[r] IN
       IF RecValidates(q.doc)
         THEN /\ recs' = Append(recs, q.doc)
              /\ req' = [req EXCEPT ![r] =
                           Respond(q, 200, [error |-> "", rec |-> q.doc])]
         ELSE /\ recs' = recs
              /\ req' = [req EXCEPT ![r] = ErrorHandler(q, "ValidationError")]
  /\ UNCHANGED <<users, readings, samples, alerts, forecasts, table>>

NextSoil ==
  \E r \in Slots :
    \/ BeginGetSoilInfo(r)
    \/ verifyJWT(r)
    \/ SoilStart(r)
    \/ SoilGenerated(r)
    \/ SoilSaved(r)
    \/ BeginRecommend(r)
    \/ RecommendStart(r)
    \/ RecommendFindById(r)
    \/ RecommendGenerated(r)
    \/ RecommendSaved(r)

SpecSoil == Init /\ [][NextSoil]_vars

\* ----------------------------------------------------------- weather alerts

KelvinOffset == 27315

TempLimit == 4000

RainLimit == 50

SoilLimit == 20

\* temperatures are in hundredths of a degree

\* faulty variant: the temperature rule written with >=
AlertMessage_Geq(reading) ==
  (IF reading.tempC >= TempLimit
     THEN <<[line |-> "High temperature", value |-> reading.tempC]>>
     ELSE <<>>)
  \o (IF reading.rainMm > RainLimit
        THEN <<[line |-> "Heavy rainfall", value |-> reading.rainMm]>>
        ELSE <<>>)
  \o (IF reading.soilMoisturePct < SoilLimit
        THEN <<[line |-> "Low soil moisture",
                value |-> reading.soilMoisturePct]>>
        ELSE <<>>)

\* alertMessage: the lines appended by the three rules, "" when none trips
AlertMessage(reading) ==
  (IF reading.tempC > TempLimit
     THEN <<[line |-> "High temperature", value |-> reading.tempC]>>
     ELSE <<>>)
  \o (IF reading.rainMm > RainLimit
        THEN <<[line |-> "Heavy rainfall", value |-> reading.rainMm]>>
        ELSE <<>>)
  \o (IF reading.soilMoisturePct < SoilLimit
        THEN <<[line |-> "Low soil moisture",
                value |-> reading.soilMoisturePct]>>
        ELSE <<>>)

\* UserModel.find({ fcmToken: { $exists: true } }): the _ids of the records
\* that have the field, whatever its value (null included), in _id order
RECURSIVE IdsFrom(_, _)
IdsFrom(us, i) ==
  IF i > Len(us) THEN <<>>
  ELSE (IF us[i].fcmToken # Undef THEN <<i>> ELSE <<>>) \o IdsFrom(us, i + 1)

FindWithFcmToken(us) == IdsFrom(us, 1)

\* fcm.send(message): TRUE when it resolves, FALSE when it throws; a
\* message without a token is refused
FcmSendOutcomes(token) == IF token = Null THEN {FALSE} ELSE {TRUE, FALSE}

\* checkAndSendFCMAlert returns: in a request, fetchWeatherFromAPI goes on
\* to res.json({ message, weather: newReading })
AlertReturned(q) ==
  IF q.route = "sendAlert"
    THEN Respond(q, 200,
                 [error |-> "",
                  message |-> "Weather saved and FCM alerts sent if needed",
                  weather |-> q.reading])
    ELSE [q EXCEPT !.pc = "returned"]

\* faulty variant: a tripped rule is also recorded as an Alert document
AlertCheck_Record(r) ==
  /\ req[r].pc = "alert_check"
  /\ LET q == req[r]
         alertMessage == AlertMessage(q.reading)
     IN IF alertMessage # <<>>
          THEN /\ req' = [req EXCEPT ![r] =
                    [q EXCEPT !.message = alertMessage, !.pc = "alert_find"]]
               /\ alerts' = Append(alerts, [alertType |-> alertMessage[1].line,
                                            severity |-> "medium"])
          ELSE /\ req' = [req EXCEPT ![r] = AlertReturned(q)]
               /\ alerts' = alerts
  /\ UNCHANGED <<users, readings, samples, recs, forecasts, table>>

AlertCheck(r) ==
  /\ req[r].pc = "alert_check"
  /\ LET q == req[r]
         alertMessage == AlertMessage(q.reading)
     IN req' = [req EXCEPT ![r] =
          IF alertMessage # <<>>
            THEN [q EXCEPT !.message = alertMessage, !.pc = "alert_find"]
            ELSE AlertReturned(q)]
  /\ UNCHANGED <<users, readings, samples, recs, alerts, forecasts, table>>

\* what checkAndSendFCMAlert throws leaves fetchWeatherFromAPI as well
AlertThrown(q, msg) ==
  IF q.route = "sendAlert"
    THEN ErrorHandler(q, msg)
    ELSE [q EXCEPT !.body = ErrorBody(msg), !.pc = "thrown"]

\* await UserModel.find({ fcmToken: { $exists: true } }) resolves or throws
AlertFind(r) ==
  /\ req[r].pc = "alert_find"
  /\ LET q == [req[r] EXCEPT !.finds = @ + 1] IN
       \/ req' = [req EXCEPT ![r] =
                    [q EXCEPT !.targets = FindWithFcmToken(users),
                              !.pc = "alert_loop"]]
       \/ req' = [req EXCEPT ![r] = AlertThrown(q, "UserModel.find failed")]
  /\ UNCHANGED <<users, readings, samples, recs, alerts, forecasts, table>>

\* faulty variant: the next sendFCMAlert is called without awaiting the last
AlertCall_NoAwait(r) ==
  /\ req[r].pc = "alert_loop"
  /\ Len(req[r].fcmLog) + req[r].inflight < Len(req[r].targets)
  /\ req' = [req EXCEPT ![r].inflight = @ + 1]
  /\ UNCHANGED <<users, readings, samples, recs, alerts, forecasts, table>>

\* one turn of the loop begins: sendFCMAlert(user.fcmToken, ...) is called
\* and awaited, fcm.send(message) is on its way
AlertCall(r) ==
  /\ req[r].pc = "alert_loop"
  /\ req[r].inflight = 0
  /\ Len(req[r].fcmLog) < Len(req[r].targets)
  /\ req' = [req EXCEPT ![r].inflight = @ + 1]
  /\ UNCHANGED <<users, readings, samples, recs, alerts, forecasts, table>>

\* faulty variant: sendFCMAlert without its try/catch, a failed send is thrown on
AlertSend_NoCatch(r) ==
  /\ req[r].pc = "alert_loop"
  /\ req[r].inflight > 0
  /\ LET q == [req[r] EXCEPT !.inflight = @ - 1]
         user == users[q.targets[Len(q.fcmLog) + 1]]
     IN \E ok \in FcmSendOutcomes(user.fcmToken) :
          LET sent == [q EXCEPT !.fcmLog =
                         Append(@, [token |-> user.fcmToken,
                                    title |-> "Weather Alert",
                                    body |-> q.message, ok |-> ok])]
          IN req' = [req EXCEPT ![r] =
               IF ok THEN sent ELSE ErrorHandler(sent, "fcm.send failed")]
  /\ UNCHANGED <<users, readings, samples, recs, alerts, forecasts, table>>

\* the turn ends: fcm.send settles; sendFCMAlert catches and logs what it
\* throws, and the awaited call returns
AlertSend(r) ==
  /\ req[r].pc = "alert_loop"
  /\ req[r].inflight > 0
  /\ LET q == [req[r] EXCEPT !.inflight = @ - 1]
         user == users[q.targets[Len(q.fcmLog) + 1]]
     IN \E ok \in FcmSendOutcomes(user.fcmToken) :
          req' = [req EXCEPT ![r] =
                    [q EXCEPT !.fcmLog =
                       Append(@, [token |-> user.fcmToken,
                                  title |-> "Weather Alert",
                                  body |-> q.message, ok |-> ok])]]
  /\ UNCHANGED <<users, readings, samples, recs, alerts, forecasts, table>>

\* the loop is over
AlertDone(r) ==
  /\ req[r].pc = "alert_loop"
  /\ req[r].inflight = 0
  /\ Len(req[r].fcmLog) = Len(req[r].targets)
  /\ req' = [req EXCEPT ![r] = AlertReturned(req[r])]
  /\ UNCHANGED <<users, readings, samples, recs, alerts, forecasts, table>>

\* ------------------------------------------------------ POST /send-alert

\* faulty variant: only a missing field is refused
Falsy_MissingOnly(x) == x = <<>>

\* a JSON number or a missing field: <<n>> or <<>>
Falsy(x) == x = <<>> \/ x = <<0>>

Lats == {<<>>, <<0>>, <<28>>}

Lons == {<<>>, <<0>>, <<77>>}

\* the first forecast entry: main.temp in hundredths of a kelvin (25 and
\* 41 degrees Celsius) and rain["3h"], which may be missing
Forecasts == [temp : {29815, 31415}, rain3h : {<<>>, <<0>>, <<60>>}]

BeginSendAlert(r) ==
  /\ Idle(r)
  /\ Len(readings) < MaxReadings
  /\ \E lat \in Lats, lon \in Lons :
       req' = [req EXCEPT ![r] =
                 Arrive([NoReq EXCEPT !.route = "sendAlert",
                                      !.pc = "handler",
                                      !.lat = lat, !.lon = lon])]
  /\ UNCHANGED <<users, readings, samples, recs, alerts, forecasts, table>>

WeatherStart(r) ==
  /\ req[r].pc = "handler"
  /\ req[r].route = "sendAlert"
  /\ LET q == req[r] IN
       req' = [req EXCEPT ![r] =
         IF Falsy(q.lat) \/ Falsy(q.lon)
           THEN Respond(q, 400, ErrorBody("lat and lon are required"))
           ELSE [q EXCEPT !.httpCalls = @ + 1, !.pc = "w_fetch"]]
  /\ UNCHANGED <<users, readings, samples, recs, alerts, forecasts, table>>

\* faulty variant: the point stored as [lat, lon]
NewReading_LatLon(data, lat, lon) ==
  [source          |-> "model",
   tempC           |-> data.temp - KelvinOffset,
   rainMm          |-> IF Falsy(data.rain3h) THEN 0 ELSE data.rain3h[1],
   solarWm2        |-> 0,
   soilMoisturePct |-> 0,
   coordinates     |-> <<lat[1], lon[1]>>]

\* faulty variant: the soil moisture left at the limit of its rule
NewReading_SoilAtLimit(data, lat, lon) ==
  [source          |-> "model",
   tempC           |-> data.temp - KelvinOffset,
   rainMm          |-> IF Falsy(data.rain3h) THEN 0 ELSE data.rain3h[1],
   solarWm2        |-> 0,
   soilMoisturePct |-> SoilLimit,
   coordinates     |-> <<lon[1], lat[1]>>]

\* new WeatherReadingModel({...}) from response.data[0]
NewReading(data, lat, lon) ==
  [source          |-> "model",
   tempC           |-> data.temp - KelvinOffset,
   rainMm          |-> IF Falsy(data.rain3h) THEN 0 ELSE data.rain3h[1],
   solarWm2        |-> 0,
   soilMoisturePct |-> 0,
   coordinates     |-> <<lon[1], lat[1]>>]

\* faulty variant: a failed axios.get is tried once more
WeatherFetched_Retry(r) ==
  /\ req[r].pc = "w_fetch"
  /\ LET q == req[r] IN
       \/ req' = [req EXCEPT ![r] =
                    IF q.httpCalls < 2
                      THEN [q EXCEPT !.httpCalls = @ + 1]
                      ELSE ErrorHandler(q, "axios.get failed")]
       \/ req' = [req EXCEPT ![r] = ErrorHandler(q, "TypeError")]
       \/ \E data \in Forecasts :
            req' = [req EXCEPT ![r] =
                      [q EXCEPT !.upstream = data,
                                !.reading = NewReading(data, q.lat, q.lon),
                                !.pc = "w_save"]]
  /\ UNCHANGED <<users, readings, samples, recs, alerts, forecasts, table>>

\* axios.get resolves or throws; a response without a first forecast entry
\* makes data.main throw a TypeError
WeatherFetched(r) ==
  /\ req[r].pc = "w_fetch"
  /\ LET q == req[r] IN
       \/ req' = [req EXCEPT ![r] = ErrorHandler(q, "axios.get failed")]
       \/ req' = [req EXCEPT ![r] = ErrorHandler(q, "TypeError")]
       \/ \E data \in Forecasts :
            req' = [req EXCEPT ![r] =
                      [q EXCEPT !.upstream = data,
                                !.reading = NewReading(data, q.lat, q.lon),
                                !.pc = "w_save"]]
  /\ UNCHANGED <<users, readings, samples, recs, alerts, forecasts, table>>

\* newReading.save() resolves or throws; then checkAndSendFCMAlert is called
WeatherSaved(r) ==
  /\ req[r].pc = "w_save"
  /\ LET q == req[r] IN
       \/ /\ readings' = Append(readings, q.reading)
          /\ req' = [req EXCEPT ![r] = [q EXCEPT !.pc = "alert_check"]]
       \/ /\ readings' = readings
          /\ req' = [req EXCEPT ![r] = ErrorHandler(q, "save failed")]
  /\ UNCHANGED <<users, samples, recs, alerts, forecasts, table>>

\* user records as the weather routes see them: only fcmToken matters
Letters == <<"a", "b", "c", "d">>

TokenUser(i, tok) ==
  [NewUserDoc("local", <<Letters[i]>>, BcryptHash("p1", "s1"), Undef)
     EXCEPT !.fcmToken = tok]

\* the field missing, null (the schema's default) or a device token
FcmTokens == {Undef, Null, "t1"}

UserCollections ==
  UNION {{[i \in 1..n |-> TokenUser(i, toks[i])] :
            toks \in [1..n -> FcmTokens]} : n \in 0..MaxUsersW}

Readings ==
  [source : {"model"}, tempC : {2500, 4000, 4100}, rainMm : {0, 50, 60},
   solarWm2 : {0}, soilMoisturePct : {0, 20, 50},
   coordinates : {<<77, 28>>}]

\* checkAndSendFCMAlert called on any reading, with any User collection
InitAlert ==
  /\ users \in UserCollections
  /\ readings = <<>>
  /\ samples = <<>>
  /\ recs = <<>>
  /\ alerts = <<>>
  /\ forecasts = <<>>
  /\ TableMounted
  /\ \E rd \in Readings :
       req = [r \in Slots |->
                [NoReq EXCEPT !.route = "checkAndSendFCMAlert",
                              !.pc = "alert_check", !.reading = rd,
                              !.db0 = [users |-> users, readings |-> <<>>,
                                       samples |-> <<>>, recs |-> <<>>]]]

NextAlert ==
  \E r \in Slots :
    \/ AlertCheck(r)
    \/ AlertFind(r)
    \/ AlertCall(r)
    \/ AlertSend(r)
    \/ AlertDone(r)

SpecAlert == InitAlert /\ [][NextAlert]_vars

WeatherUsers ==
  {<<>>,
   <<TokenUser(1, Null)>>,
   <<TokenUser(1, "t1"), TokenUser(2, Undef)>>,
   <<TokenUser(1, "t1"), TokenUser(2, Null), TokenUser(3, "t2")>>}

InitWeather ==
  /\ users \in WeatherUsers
  /\ readings = <<>>
  /\ samples = <<>>
  /\ recs = <<>>
  /\ alerts = <<>>
  /\ forecasts = <<>>
  /\ TableMounted
  /\ req = [r \in Slots |-> NoReq]

NextWeather ==
  \E r \in Slots :
    \/ BeginSendAlert(r)
    \/ WeatherStart(r)
    \/ WeatherFetched(r)
    \/ WeatherSaved(r)
    \/ AlertCheck(r)
    \/ AlertFind(r)
    \/ AlertCall(r)
    \/ AlertSend(r)
    \/ AlertDone(r)

SpecWeather == InitWeather /\ [][NextWeather]_vars

\* ---------------------------------------------- POST /enam/trade-data

\* A value of the upstream JSON: a trade row (an object) or an array of
\* values.
Row(id) == [t |-> "row", id |-> id, items |-> <<>>]

Arr(items) == [t |-> "arr", id |-> "", items |-> items]

Rows == {Row("r1"), Row("r2")}

\* the arrays of at most two elements nested at most d deep; two arrays side
\* by side are arrays of rows
RECURSIVE Arrays(_)
Arrays(d) ==
  IF d = 0 THEN {}
  ELSE LET Sub == Arrays(d - 1)
           E == Rows \cup Sub
           Leafs == IF d > 1 THEN Arrays(1) ELSE {}
       IN {Arr(<<>>)} \cup {Arr(<<x>>) : x \in E}
            \cup {Arr(<<x, y>>) : x \in E, y \in Rows}
            \cup {Arr(<<x, y>>) : x \in Rows, y \in E}
            \cup {Arr(<<x, y>>) : x \in Leafs, y \in Leafs}

\* what response.data.data may be when it is an array
Upstreams == Arrays(MaxDepth)

\* faulty variant: flat() with its default depth of one level
RECURSIVE Flat_OneLevel(_)
Flat_OneLevel(items) ==
  IF items = <<>> THEN <<>>
  ELSE (IF Head(items).t = "arr" THEN Head(items).items ELSE <<Head(items)>>)
         \o Flat_OneLevel(Tail(items))

\* array.flat(Infinity): every element that is an array is replaced by its
\* own flattened elements, whatever the depth
RECURSIVE Flat(_)
Flat(items) ==
  IF items = <<>> THEN <<>>
  ELSE (IF Head(items).t = "arr" THEN Flat(Head(items).items)
        ELSE <<Head(items)>>)
         \o Flat(Tail(items))

BeginEnam(r) ==
  /\ Idle(r)
  /\ req' = [req EXCEPT ![r] =
               Arrive([NoReq EXCEPT !.route = "enam", !.pc = "handler"])]
  /\ UNCHANGED <<users, readings, samples, recs, alerts, forecasts, table>>

\* the form is built from req.body and axios.post is awaited
EnamStart(r) ==
  /\ req[r].pc = "handler"
  /\ req[r].route = "enam"
  /\ req' = [req EXCEPT ![r] =
               [req[r] EXCEPT !.httpCalls = @ + 1, !.pc = "enam_fetch"]]
  /\ UNCHANGED <<users, readings, samples, recs, alerts, forecasts, table>>

\* axios.post resolves or throws; a body whose data is no array makes
\* .flat throw a TypeError
EnamFetched(r) ==
  /\ req[r].pc = "enam_fetch"
  /\ LET q == req[r] IN
       \/ req' = [req EXCEPT ![r] = ErrorHandler(q, "axios.post failed")]
       \/ req' = [req EXCEPT ![r] = ErrorHandler(q, "TypeError")]
       \/ \E data \in Upstreams :
            LET flattenedData == Flat(data.items) IN
              req' = [req EXCEPT ![r] =
                        Respond([q EXCEPT !.upstream = data], 200,
                                [error |-> "",
                                 message |-> "Data fetched successfully",
                                 data |-> flattenedData])]
  /\ UNCHANGED <<users, readings, samples, recs, alerts, forecasts, table>>

NextMarket ==
  \E r \in Slots :
    \/ BeginEnam(r)
    \/ EnamStart(r)
    \/ EnamFetched(r)

SpecMarket == Init /\ [][NextMarket]_vars

\* ------------------------------------------------------- chatbot routes

\* a field of req.body holding text: missing, the empty string, or a text
Texts1 == {<<>>, <<"">>, <<"hello">>}

\* req.body.detectionResult: missing, null, an object without fields, or a
\* detection result
Detections == {<<>>, <<Null>>, <<"{}">>, <<"blight">>}

\* !x of JavaScript for these values
Not(x) == x = <<>> \/ x[1] \in {"", Null}

BeginBot(r) ==
  /\ Idle(r)
  /\ \E query \in Texts1 :
       req' = [req EXCEPT ![r] =
                 Arrive([NoReq EXCEPT !.route = "bot", !.pc = "handler",
                                      !.field = query])]
  /\ UNCHANGED <<users, readings, samples, recs, alerts, forecasts, table>>

BeginTextToSpeech(r) ==
  /\ Idle(r)
  /\ \E text \in Texts1 :
       req' = [req EXCEPT ![r] =
                 Arrive([NoReq EXCEPT !.route = "text-to-speech",
                                      !.pc = "handler", !.field = text])]
  /\ UNCHANGED <<users, readings, samples, recs, alerts, forecasts, table>>

BeginGenerateResult(r) ==
  /\ Idle(r)
  /\ \E detectionResult \in Detections :
       req' = [req EXCEPT ![r] =
                 Arrive([NoReq EXCEPT !.route = "generateResult",
                                      !.pc = "handler",
                                      !.field = detectionResult])]
  /\ UNCHANGED <<users, readings, samples, recs, alerts, forecasts, table>>

\* ChatBotFunction up to its await cropAdviceChatbot({ query, language })
ChatBotFunction(r) ==
  /\ req[r].pc = "handler"
  /\ req[r].route = "bot"
  /\ LET q == req[r] IN
       req' = [req EXCEPT ![r] =
         IF Not(q.field)
           THEN Respond(q, 400, ErrorBody("Query is required"))
           ELSE [q EXCEPT !.prompt = q.field, !.aiCalls = @ + 1,
                          !.pc = "bot_ai"]]
  /\ UNCHANGED <<users, readings, samples, recs, alerts, forecasts, table>>

\* faulty variant: the handler without its try/catch
ChatBotAnswered_NoCatch(r) ==
  /\ req[r].pc = "bot_ai"
  /\ LET q == req[r] IN
       \/ req' = [req EXCEPT ![r] =
                    Respond(q, 200, [error |-> "", data |-> "answer"])]
       \/ req' = [req EXCEPT ![r] =
                    ErrorHandler(q, "cropAdviceChatbot failed")]
  /\ UNCHANGED <<users, readings, samples, recs, alerts, forecasts, table>>

\* the flow resolves, or throws into the handler's own catch
ChatBotAnswered(r) ==
  /\ req[r].pc = "bot_ai"
  /\ LET q == req[r] IN
       \/ req' = [req EXCEPT ![r] =
                    Respond(q, 200, [error |-> "", data |-> "answer"])]
       \/ req' = [req EXCEPT ![r] =
                    Respond(q, 500, ErrorBody("cropAdviceChatbot failed"))]
  /\ UNCHANGED <<users, readings, samples, recs, alerts, forecasts, table>>

\* texttospeech up to its await textToSpeech(text)
texttospeech(r) ==
  /\ req[r].pc = "handler"
  /\ req[r].route = "text-to-speech"
  /\ LET q == req[r] IN
       req' = [req EXCEPT ![r] =
         IF Not(q.field)
           THEN Respond(q, 400, ErrorBody("Text is required"))
           ELSE [q EXCEPT !.prompt = q.field, !.aiCalls = @ + 1,
                          !.pc = "tts_ai"]]
  /\ UNCHANGED <<users, readings, samples, recs, alerts, forecasts, table>>

TextToSpeechAnswered(r) ==
  /\ req[r].pc = "tts_ai"
  /\ LET q == req[r] IN
       \/ req' = [req EXCEPT ![r] =
                    Respond(q, 200, [error |-> "", data |-> "audio/wav"])]
       \/ req' = [req EXCEPT ![r] =
                    Respond(q, 500, ErrorBody("textToSpeech failed"))]
  /\ UNCHANGED <<users, readings, samples, recs, alerts, forecasts, table>>

\* generateResult up to its await model.generateContent(prompt)
generateResult(r) ==
  /\ req[r].pc = "handler"
  /\ req[r].route = "generateResult"
  /\ LET q == req[r] IN
       req' = [req EXCEPT ![r] =
         IF Not(q.field)
           THEN Respond(q, 400, ErrorBody("No detection result provided."))
           ELSE [q EXCEPT !.prompt = q.field, !.aiCalls = @ + 1,
                          !.pc = "result_ai"]]
  /\ UNCHANGED <<users, readings, samples, recs, alerts, forecasts, table>>

GenerateResultAnswered(r) ==
  /\ req[r].pc = "result_ai"
  /\ LET q == req[r] IN
       \/ req' = [req EXCEPT ![r] =
                    Respond(q, 200, [error |-> "", data |-> "interpretation"])]
       \/ req' = [req EXCEPT ![r] =
                    Respond(q, 500,
                            ErrorBody("Failed to generate interpretation"))]
  /\ UNCHANGED <<users, readings, samples, recs, alerts, forecasts, table>>

NextChat ==
  \E r \in Slots :
    \/ BeginBot(r)
    \/ BeginTextToSpeech(r)
    \/ BeginGenerateResult(r)
    \/ ChatBotFunction(r)
    \/ ChatBotAnswered(r)
    \/ texttospeech(r)
    \/ TextToSpeechAnswered(r)
    \/ generateResult(r)
    \/ GenerateResultAnswered(r)

\* -------------------------------------------------- every routed endpoint

\* All routers that bootstrap mounts: one request, to any route, arriving
\* at a server whose collections earlier requests have filled.
SoilSamples == {<<>>, <<[farmerId |-> <<>>, data |-> <<"a">>]>>}

InitAll ==
  /\ users \in WeatherUsers
  /\ readings = <<>>
  /\ samples \in SoilSamples
  /\ recs = <<>>
  /\ alerts = <<>>
  /\ forecasts = <<>>
  /\ TableMounted
  /\ req = [r \in Slots |-> NoReq]

BeginAny(r) ==
  \/ BeginRegister(r)
  \/ BeginAuth0(r)
  \/ BeginLogin(r)
  \/ BeginProfile(r)
  \/ BeginGetSoilInfo(r)
  \/ BeginRecommend(r)
  \/ BeginSendAlert(r)
  \/ BeginEnam(r)
  \/ BeginBot(r)
  \/ BeginTextToSpeech(r)
  \/ BeginGenerateResult(r)

NextAll ==
  \E r \in Slots :
    \/ req[r].pc = "idle" /\ BeginAny(r)
    \/ verifyJWT(r)
    \/ RegisterStart(r)
    \/ RegisterFindOne(r)
    \/ RegisterHash(r)
    \/ RegisterSave(r)
    \/ LoginStart(r)
    \/ LoginFindOne(r)
    \/ LoginCompare(r)
    \/ Auth0Start(r)
    \/ Auth0FindBySub(r)
    \/ Auth0FindByEmail(r)
    \/ Auth0Save(r)
    \/ SoilStart(r)
    \/ SoilGenerated(r)
    \/ SoilSaved(r)
    \/ RecommendStart(r)
    \/ RecommendFindById(r)
    \/ RecommendGenerated(r)
    \/ RecommendSaved(r)
    \/ WeatherStart(r)
    \/ WeatherFetched(r)
    \/ WeatherSaved(r)
    \/ AlertCheck(r)
    \/ AlertFind(r)
    \/ AlertCall(r)
    \/ AlertSend(r)
    \/ AlertDone(r)
    \/ EnamStart(r)
    \/ EnamFetched(r)
    \/ ChatBotFunction(r)
    \/ ChatBotAnswered(r)
    \/ texttospeech(r)
    \/ TextToSpeechAnswered(r)
    \/ generateResult(r)
    \/ GenerateResultAnswered(r)

SpecAll == InitAll /\ [][NextAll]_vars

\* the chatbot routes alone, over the same databases
SpecChat == InitAll /\ [][NextChat]_vars

\* ================================================================= claims

Done(r) == req[r].pc = "done"

NonEmptyCreds(q) == q.email # <<>> /\ q.password # ""

\* the local account a login names, in the collection as the request found it
LocalAccount(q) ==
  {i \in 1..Len(q.db0.users) :
     /\ q.db0.users[i].authProvider = "local"
     /\ q.db0.users[i].email = Trim(ToLowerCase(q.email))}

WrongPassword(q) ==
  /\ q.route = "login"
  /\ q.email # <<>>
  /\ LocalAccount(q) # {}
  /\ \A i \in LocalAccount(q) : q.db0.users[i].passwordHash.key # q.password

\* every record the request found is still there, unchanged
RecordsKept(q) ==
  /\ Len(users) >= Len(q.db0.users)
  /\ SubSeq(users, 1, Len(q.db0.users)) = q.db0.users

UsedIn(us, e) == \E i \in 1..Len(us) : us[i].email = e

\* the registration created exactly one user, a local one with email e, and
\* returned a token for it
RegisteredAs(q, e) ==
  /\ q.status = 200
  /\ Len(users) = Len(q.db0.users) + 1
  /\ SubSeq(users, 1, Len(q.db0.users)) = q.db0.users
  /\ users[Len(users)].authProvider = "local"
  /\ users[Len(users)].email = e
  /\ q.body.token # NoToken
  /\ q.body.token.email = e
  /\ q.body.uemail = e

NothingRegistered(q) ==
  /\ users = q.db0.users
  /\ q.body.token = NoToken

\* the header fails verifyJWT's checks
Rejected(hdr) ==
  \/ hdr = <<>>
  \/ hdr = <<Word("")>>
  \/ Len(hdr) < 2
  \/ hdr[1] # Word("Bearer")
  \/ hdr[2].t # "jwt"
  \/ hdr[2].key # "JWT_SECRET"
  \/ hdr[2].expired

Protected(q) == q.route \in {"profile", "getSoilInfo"}

\* the call has looked the users up
Broadcasting(q) == q.finds > 0 /\ q.body.error # "UserModel.find failed"

HasDeviceToken(u) == u.fcmToken # Undef /\ u.fcmToken # Null

Trips(rd) ==
  rd.tempC > 4000 \/ rd.rainMm > 50 \/ rd.soilMoisturePct < 20

ExpectedLines(rd) ==
  SelectSeq(<<"High temperature", "Heavy rainfall", "Low soil moisture">>,
            LAMBDA l : \/ l = "High temperature" /\ rd.tempC > 4000
                       \/ l = "Heavy rainfall" /\ rd.rainMm > 50
                       \/ l = "Low soil moisture" /\ rd.soilMoisturePct < 20)

\* C1: when checkAndSendFCMAlert alerts, sendFCMAlert is called for exactly
\* the users whose fcmToken is non-null: the users selected are those with
\* a token, and no call carries a null token.
C1_OnlyTokenHolders ==
  \A r \in Slots :
    Broadcasting(req[r]) =>
      /\ {req[r].targets[i] : i \in 1..Len(req[r].targets)}
           = {i \in 1..Len(users) : HasDeviceToken(users[i])}
      /\ \A i \in 1..Len(req[r].fcmLog) : req[r].fcmLog[i].token # Null

\* C2: checkAndSendFCMAlert looks the users up and calls sendFCMAlert (once
\* for each user found) if and only if a rule trips (tempC > 40, rainMm > 50,
\* soilMoisturePct < 20); when none trips there is no lookup and no call;
\* the message sent has one line per tripped rule, in the order temperature,
\* rainfall, soil moisture.
C2_AlertIffRuleTrips ==
  \A r \in Slots :
    LET q == req[r] IN
      (q.route = "checkAndSendFCMAlert" /\ q.pc # "alert_check") =>
        IF Trips(q.reading)
          THEN /\ q.pc \in {"alert_find", "alert_loop", "returned", "thrown"}
               /\ [i \in 1..Len(q.message) |-> q.message[i].line]
                    = ExpectedLines(q.reading)
               /\ q.pc # "alert_find" => q.finds = 1
               /\ q.pc = "returned" => Len(q.fcmLog) = Len(q.targets)
               /\ \A i \in 1..Len(q.fcmLog) : q.fcmLog[i].body = q.message
          ELSE /\ q.pc = "returned"
               /\ q.finds = 0
               /\ q.fcmLog = <<>>

\* two rules tripped and the alert went out to two users
C2_Witness ==
  \E r \in Slots :
    /\ req[r].route = "checkAndSendFCMAlert"
    /\ req[r].pc = "returned"
    /\ Len(req[r].message) = 2
    /\ Len(req[r].fcmLog) = 2

\* C3: a failed delivery never ends the broadcast: sendFCMAlert is attempted
\* for every user found, in order, whichever attempts fail, and the
\* send-alert request ends with the success response carrying the reading
\* it persisted.
C3_FailedSendsDoNotAbort ==
  \A r \in Slots :
    LET q == req[r] IN
      (q.route = "sendAlert" /\ Broadcasting(q)) =>
        /\ Len(q.fcmLog) <= Len(q.targets)
        /\ \A i \in 1..Len(q.fcmLog) :
             q.fcmLog[i].token = users[q.targets[i]].fcmToken
        /\ q.pc \in {"alert_loop", "done"}
        /\ q.pc = "done" =>
             /\ Len(q.fcmLog) = Len(q.targets)
             /\ q.status = 200
             /\ q.nresp = 1
             /\ q.body.weather = q.reading
             /\ readings = Append(q.db0.readings, q.reading)

\* three recipients, every delivery failed, the request succeeded
C3_Witness ==
  \E r \in Slots :
    /\ req[r].route = "sendAlert"
    /\ Done(r)
    /\ req[r].status = 200
    /\ Len(req[r].fcmLog) = 3
    /\ \A i \in 1..3 : ~req[r].fcmLog[i].ok

\* C4: verifyJWT either answers 401 and never calls next (req.user unset,
\* no handler runs), when the header is missing, not "Bearer ..." or its
\* token fails verification, or it sets req.user to the token's claims and
\* calls next once without responding.
C4_VerifyJWT ==
  \A r \in Slots :
    Protected(req[r]) =>
      IF req[r].pc = "verifyJWT"
        THEN req[r].nnext = 0 /\ req[r].nresp = 0 /\ req[r].user = NoClaims
      ELSE IF Rejected(req[r].hdr)
        THEN /\ req[r].pc = "done"
             /\ req[r].status = 401
             /\ req[r].nresp = 1
             /\ req[r].nnext = 0
             /\ req[r].user = NoClaims
      ELSE /\ req[r].nnext = 1
           /\ req[r].user.sub = req[r].hdr[2].sub
           /\ req[r].user.email = req[r].hdr[2].email
           /\ req[r].user.role = req[r].hdr[2].role
           /\ req[r].user.provider = req[r].hdr[2].provider
           /\ req[r].pc = "handler" => (req[r].nresp = 0 /\ req[r].status = 0)

\* next was called for a token that comes after "Bearer " and before a
\* further word
C4_Witness ==
  \E r \in Slots :
    /\ Protected(req[r])
    /\ req[r].pc = "handler"
    /\ Len(req[r].hdr) = 3
    /\ req[r].nnext = 1

\* C5: on POST /getSoilInfo the generative model is called and a SoilHealth
\* record is created only for a request whose bearer token verifyJWT
\* accepted: a request without a valid token causes neither.
C5_SoilNeedsToken ==
  \A r \in Slots :
    req[r].route = "getSoilInfo" =>
      /\ Rejected(req[r].hdr) =>
           (req[r].aiCalls = 0 /\ samples = req[r].db0.samples)
      /\ (req[r].aiCalls > 0 \/ samples # req[r].db0.samples) =>
           (req[r].nnext = 1 /\ req[r].user # NoClaims)

C5_Witness ==
  \E r \in Slots :
    /\ req[r].route = "getSoilInfo"
    /\ Done(r)
    /\ req[r].status = 200
    /\ req[r].aiCalls = 1
    /\ Len(samples) = Len(req[r].db0.samples) + 1

\* C6 (as stated): every login naming an existing local account with a
\* password that does not match the stored hash is answered 401, signToken
\* is not called, the response has no token and no user is created or changed.
C6_Original ==
  \A r \in Slots :
    (Done(r) /\ WrongPassword(req[r])) =>
       /\ req[r].status = 401
       /\ req[r].signed = 0
       /\ req[r].body.token = NoToken
       /\ users = req[r].db0.users

\* C6 (amended): the same for a non-empty wrong password; with an empty
\* password the answer is 400, and in both cases signToken is never called,
\* no token is returned and the User collection is left as it was.
C6_WrongPassword401 ==
  \A r \in Slots :
    WrongPassword(req[r]) =>
       /\ req[r].signed = 0
       /\ req[r].body.token = NoToken
       /\ users = req[r].db0.users
       /\ Done(r) =>
            req[r].status = (IF req[r].password = "" THEN 400 ELSE 401)

C6_Witness ==
  \E r \in Slots :
    /\ Done(r)
    /\ WrongPassword(req[r])
    /\ req[r].password = "p2"
    /\ req[r].status = 401

\* C7: a login with non-empty email and password that names no local account
\* (also when the email exists only as an auth0 account) and one that names
\* a local account with a wrong password get the same response: status 401
\* and the same error text, nothing else in the body.
C7_SameResponse ==
  \A r \in Slots :
    (/\ Done(r)
     /\ req[r].route = "login"
     /\ NonEmptyCreds(req[r])
     /\ (LocalAccount(req[r]) = {} \/ WrongPassword(req[r]))) =>
       /\ req[r].status = 401
       /\ req[r].body = [error |-> "Invalid credentials", token |-> NoToken,
                         uid |-> 0, uemail |-> <<>>]

\* a login answered for an email that exists only as an auth0 account
C7_Witness ==
  \E r \in Slots :
    /\ Done(r)
    /\ req[r].route = "login"
    /\ NonEmptyCreds(req[r])
    /\ LocalAccount(req[r]) = {}
    /\ \E i \in 1..Len(users) :
         /\ users[i].authProvider = "auth0"
         /\ users[i].email = Trim(ToLowerCase(req[r].email))
    /\ req[r].status = 401

\* C8 (as stated): a registration with non-empty email and password whose
\* lower-cased email is unused creates exactly one local user and returns a
\* token whose email claim is the lower-cased submitted email; one whose
\* lower-cased email is used creates no user and returns no token.
C8_Original ==
  \A r \in Slots :
    (Done(r) /\ req[r].route = "register" /\ NonEmptyCreds(req[r])) =>
       IF UsedIn(req[r].db0.users, ToLowerCase(req[r].email))
         THEN NothingRegistered(req[r])
         ELSE RegisteredAs(req[r], ToLowerCase(req[r].email))

\* C8 (amended): the email is normalised by lower-casing and trimming.  A
\* registration with a non-empty password and an email that is non-empty
\* after trimming, whose normalised email is unused, creates exactly one
\* local user and the token's email claim and user.email are the normalised
\* email; when the normalised email is used, or empty, no user is created
\* and no token is returned.
C8_RegisterNormalisedEmail ==
  \A r \in Slots :
    (Done(r) /\ req[r].route = "register" /\ NonEmptyCreds(req[r])) =>
       LET e == Trim(ToLowerCase(req[r].email)) IN
         IF e = <<>> \/ UsedIn(req[r].db0.users, e)
           THEN NothingRegistered(req[r]) /\ req[r].status # 200
           ELSE RegisteredAs(req[r], e)

\* a registration under an email written in upper case or with a blank
C8_Witness ==
  \E r \in Slots :
    /\ Done(r)
    /\ req[r].route = "register"
    /\ req[r].email \in {<<"A">>, <<" ", "a">>}
    /\ RegisteredAs(req[r], <<"a">>)

\* C9: an auth0_redirect whose subject has no user while a record with the
\* same email exists is answered 409 with no token and no new record, and
\* no request ever changes a record that exists: provider, password hash and
\* auth0Id of every record stay as they were created (no merge).
C9_ConflictNoMerge ==
  \A r \in Slots :
    /\ RecordsKept(req[r])
    /\ (/\ Done(r)
        /\ req[r].route = "auth0"
        /\ req[r].oidc.auth
        /\ ~\E i \in 1..Len(req[r].db0.users) :
              /\ req[r].db0.users[i].authProvider = "auth0"
              /\ req[r].db0.users[i].auth0Id = req[r].oidc.sub
        /\ UsedIn(req[r].db0.users, Trim(ToLowerCase(req[r].oidc.email)))) =>
          /\ req[r].status = 409
          /\ req[r].body.token = NoToken
          /\ req[r].signed = 0
          /\ users = req[r].db0.users

\* the collision is with a local account
C9_Witness ==
  \E r \in Slots :
    /\ Done(r)
    /\ req[r].route = "auth0"
    /\ req[r].status = 409
    /\ \E i \in 1..Len(users) :
         /\ users[i].authProvider = "local"
         /\ users[i].email = ToLowerCase(req[r].oidc.email)

\* C10: every user record has exactly one of passwordHash and auth0Id, the
\* one of its provider, and the collection never loses a record.
C10_OneCredential ==
  /\ \A i \in 1..Len(users) :
       /\ users[i].authProvider \in {"local", "auth0"}
       /\ users[i].authProvider = "local" =>
            (users[i].passwordHash # NoHash /\ users[i].auth0Id = Undef)
       /\ users[i].authProvider = "auth0" =>
            (users[i].auth0Id # Undef /\ users[i].passwordHash = NoHash)
  /\ \A r \in Slots : Len(users) >= Len(req[r].db0.users)

C10_Witness ==
  /\ \E i \in 1..Len(users) : users[i].authProvider = "local"
  /\ \E i \in 1..Len(users) : users[i].authProvider = "auth0"

\* the request of slot r passed its lookups and built the record it saves
Saving(r) == req[r].doc # NoDoc

\* the request of slot r answered with a token
GotToken(r) == Done(r) /\ req[r].status = 200 /\ req[r].body.token # NoToken

\* C11: user emails stay unique under concurrency. In every interleaving of
\* register and auth0_redirect requests, no two user records share an email;
\* of two requests that both passed their lookups for the same email (each
\* lookup before either save) at most one answers with a token and the other
\* ends in an error response; and a token is only ever answered for a user
\* record that is in the collection.
C11_UniqueEmails ==
  /\ \A i, j \in 1..Len(users) : users[i].email = users[j].email => i = j
  /\ \A r1, r2 \in ConcSlots :
       (r1 # r2 /\ Saving(r1) /\ Saving(r2)
          /\ req[r1].doc.email = req[r2].doc.email
          /\ Done(r1) /\ Done(r2))
       => /\ ~(GotToken(r1) /\ GotToken(r2))
          /\ \E r \in {r1, r2} : req[r].status >= 400 /\ ~GotToken(r)
  /\ \A r \in ConcSlots :
       GotToken(r) =>
         /\ req[r].body.uid \in 1..Len(users)
         /\ users[req[r].body.uid].email = req[r].body.token.email

\* both requests looked the same email up before either saved; one was
\* answered with the token, the other with the duplicate-key error
C11_Witness ==
  /\ Saving(1) /\ Saving(2)
  /\ req[1].route = "register" /\ req[2].route = "auth0"
  /\ req[1].doc.email = req[2].doc.email
  /\ GotToken(1)
  /\ Done(2) /\ req[2].status = 500
  /\ Len(users) = 1

\* C12: every soil sample persisted by getSoilInfo carries the requesting
\* user's identity: its farmerId is the sub claim of the bearer token that
\* verifyJWT accepted, and the prompt sent to the generative model embeds the
\* location sent with the request, never undefined.
C12_SampleCarriesIdentity ==
  \A r \in Slots :
    (req[r].route = "getSoilInfo" /\ Done(r) /\ req[r].status = 200) =>
      /\ samples[Len(samples)].farmerId = <<req[r].user.sub>>
      /\ req[r].prompt # <<>>
      /\ req[r].prompt = req[r].location

Generating(q) == q.route \in {"getSoilInfo", "recommendFertilizerGuidelines"}

NothingPersisted(q) ==
  /\ samples = q.db0.samples
  /\ recs = q.db0.recs

\* C13: in both generation operations, when the text the model returns is
\* not JSON after the fences are stripped, the request ends with an error
\* response, no SoilHealth and no FertilizerRecommendation record is created
\* and the model is not called again: a request that reaches the generation
\* calls the model exactly once, whatever the outcome.
C13_ParseFailureFails ==
  \A r \in Slots :
    Generating(req[r]) =>
      /\ req[r].aiCalls <= 1
      /\ req[r].aiText \in BadTexts =>
           /\ Done(r)
           /\ req[r].status = 500
           /\ NothingPersisted(req[r])
           /\ req[r].aiCalls = 1
      /\ (req[r].aiText # <<>> \/ req[r].status = 200) => req[r].aiCalls = 1

C13_Witness ==
  \E r \in Slots :
    /\ req[r].route = "recommendFertilizerGuidelines"
    /\ req[r].aiText \in BadTexts
    /\ Len(samples) > 0
    /\ req[r].status = 500
    /\ req[r].aiCalls = 1

RECURSIVE Contains(_, _)
Contains(s, pat) ==
  IF Len(s) < Len(pat) THEN FALSE
  ELSE StartsWith(s, pat) \/ Contains(Tail(s), pat)

Stripping(q) == q.route = "stripFences" /\ q.pc # "strip"

\* a JSON text wrapped in a fence was stripped and parsed
FencedJson(q) ==
  /\ Stripping(q)
  /\ q.json # <<>>
  /\ JsonParse(q.json) # <<>>
  /\ q.aiText # q.json

\* C14: fence-stripping round trip. For every JSON text j, the stripping
\* (every fence followed by json removed, then every fence, then trim) applied
\* to j wrapped in a fence gives a text that parses to the same value as j
\* itself; the stripping is idempotent; and a text without a fence comes out
\* unchanged up to the whitespace around it.
C14_RoundTrip ==
  \A r \in Slots :
    /\ FencedJson(req[r]) => req[r].parsed = JsonParse(req[r].json)
    /\ (Stripping(req[r]) /\ Done(r)) => req[r].again = req[r].stripped
    /\ (Stripping(req[r]) /\ ~Contains(req[r].aiText, Fence)) =>
         req[r].stripped = Trim(req[r].aiText)

\* C15: every persisted FertilizerRecommendation has a confidence within
\* [0, 1] (0..100 in hundredths): an out-of-range confidence in the model's
\* answer is rejected or clamped by generateFertilizerRecommendation, never
\* persisted as it came.
C15_ConfidenceInRange ==
  \A i \in 1..Len(recs) :
    recs[i].confidence # <<>> =>
      (recs[i].confidence[1] >= 0 /\ recs[i].confidence[1] <= 100)

Recommending(q) == q.route = "recommendFertilizerGuidelines" /\ q.pc = "done"

\* the request names no sample of the collection
NoSuchSample(q) == FindById(q.db0.samples, q.sampleId) = 0

\* C16: a recommendFertilizerGuidelines request whose sampleId refers to no
\* persisted sample is answered 404, and one that names a sample but has no
\* crop is answered 400; in both cases the model is not called and no
\* recommendation is persisted.
C16_NotFound404 ==
  \A r \in Slots :
    Recommending(req[r]) =>
      /\ NoSuchSample(req[r]) =>
           (req[r].status = 404 /\ req[r].aiCalls = 0
              /\ recs = req[r].db0.recs)
      /\ (~NoSuchSample(req[r]) /\ req[r].crop = <<>>) =>
           (req[r].status = 400 /\ req[r].aiCalls = 0
              /\ recs = req[r].db0.recs)

\* what the request found in collection now is still there, unchanged
Kept(now, before) ==
  /\ Len(now) >= Len(before)
  /\ SubSeq(now, 1, Len(before)) = before

\* C17: a successful recommendFertilizerGuidelines request creates exactly
\* one new FertilizerRecommendation, whose sampleId is the id of the sample it
\* looked up (whatever sampleId the model's output carries); the earlier
\* recommendations stay as they were and the SoilHealth collection is
\* unchanged. No handler modifies or deletes a persisted soil sample.
C17_OneNewRecommendation ==
  \A r \in Slots :
    /\ Kept(samples, req[r].db0.samples)
    /\ Kept(recs, req[r].db0.recs)
    /\ (Recommending(req[r]) /\ req[r].status = 200) =>
         /\ Len(recs) = Len(req[r].db0.recs) + 1
         /\ req[r].sample # 0
         /\ req[r].sample = FindById(req[r].db0.samples, req[r].sampleId)
         /\ recs[Len(recs)].sampleId = ObjectId(req[r].sample)
         /\ samples = req[r].db0.samples
    /\ (Recommending(req[r]) /\ req[r].status # 200) =>
         recs = req[r].db0.recs

\* a second recommendation for a sample, from an answer that names another
\* sampleId
C17_Witness ==
  \E r \in Slots :
    /\ Recommending(req[r])
    /\ req[r].status = 200
    /\ "sid" \in Range(req[r].aiText)
    /\ Len(req[r].db0.recs) = 1
    /\ Len(recs) = 2
    /\ recs[1].sampleId = recs[2].sampleId

SendAlert(q) == q.route = "sendAlert"

\* the request has added its reading, and only that, to the collection
ReadingAdded(q) == readings = Append(q.db0.readings, q.reading)

\* the request ended before its reading was saved
FailedBeforeSave(q) ==
  /\ q.pc = "done"
  /\ \/ q.status = 400
     \/ q.body.error \in {"axios.get failed", "TypeError", "save failed"}

\* C18: the order of steps inside one send-alert request. The reading is
\* persisted before the rules are evaluated, so every lookup and every
\* delivery belongs to a saved reading, and a request whose upstream call or
\* save failed has sent nothing; deliveries go one user at a time, in the
\* order found, with at most one in flight; the response is sent only when
\* the last delivery attempt is over.
C18_SendAlertOrder ==
  \A r \in Slots :
    LET q == req[r] IN
      SendAlert(q) =>
        /\ (q.pc \in {"alert_check", "alert_find", "alert_loop"}
              \/ q.message # <<>> \/ q.finds > 0 \/ q.fcmLog # <<>>
              \/ q.inflight > 0)
             => ReadingAdded(q)
        /\ FailedBeforeSave(q) =>
             (q.fcmLog = <<>> /\ q.inflight = 0 /\ q.finds = 0)
        /\ q.inflight <= 1
        /\ q.inflight + Len(q.fcmLog) <= Len(q.targets)
        /\ \A i \in 1..Len(q.fcmLog) :
             q.fcmLog[i].token = users[q.targets[i]].fcmToken
        /\ q.pc = "done" =>
             /\ q.inflight = 0
             /\ q.nresp = 1
             /\ q.status = 200 => Len(q.fcmLog) = Len(q.targets)

\* the second of three deliveries is in flight, the first is over
C18_Witness ==
  \E r \in Slots :
    /\ SendAlert(req[r])
    /\ req[r].pc = "alert_loop"
    /\ req[r].inflight = 1
    /\ Len(req[r].fcmLog) = 1
    /\ Len(req[r].targets) = 3
    /\ ReadingAdded(req[r])

\* the reading of the request is tagged [lon, lat]
Tagged(q) == q.reading.coordinates = <<q.lon[1], q.lat[1]>>

\* C19 (as stated): WeatherReading is an append-only log. A send-alert
\* request that passes validation and whose upstream call succeeds adds
\* exactly one new reading, tagged with the coordinates [lon, lat] of the
\* request; a rejected or failed request adds none; no handler updates or
\* deletes a reading.
C19_Original ==
  \A r \in Slots :
    SendAlert(req[r]) =>
      /\ Kept(readings, req[r].db0.readings)
      /\ (Done(r) /\ req[r].status = 200) =>
           (ReadingAdded(req[r]) /\ Tagged(req[r]))
      /\ (Done(r) /\ req[r].status # 200) => readings = req[r].db0.readings

\* C19 (amended): WeatherReading is an append-only log. A send-alert request
\* answered 200 has added exactly one new reading, tagged [lon, lat]; a
\* request rejected by validation, or failing at the upstream call or at the
\* save, adds none; a request that fails after the save, because the user
\* lookup of the broadcast throws, is answered 500 and has added its reading
\* all the same; no handler updates or deletes a reading.
C19_AppendOnly ==
  \A r \in Slots :
    SendAlert(req[r]) =>
      /\ Kept(readings, req[r].db0.readings)
      /\ Len(readings) <= Len(req[r].db0.readings) + 1
      /\ (Done(r) /\ req[r].status = 200) =>
           (ReadingAdded(req[r]) /\ Tagged(req[r]))
      /\ FailedBeforeSave(req[r]) => readings = req[r].db0.readings
      /\ (Done(r) /\ ~FailedBeforeSave(req[r]) /\ req[r].status # 200) =>
           /\ req[r].status = 500
           /\ req[r].body.error = "UserModel.find failed"
           /\ ReadingAdded(req[r])
           /\ Tagged(req[r])

\* a second reading appended after the first, which stayed as it was
C19_Witness ==
  \E r \in Slots :
    /\ SendAlert(req[r])
    /\ Done(r)
    /\ req[r].status = 200
    /\ Len(req[r].db0.readings) = 1
    /\ Len(readings) = 2
    /\ readings[2].coordinates = <<77, 28>>

\* the index paths from the top-level array to its rows
RECURSIVE RowPaths(_)
RowPaths(items) ==
  UNION {IF items[i].t = "row" THEN {<<i>>}
         ELSE {<<i>> \o p : p \in RowPaths(items[i].items)} :
           i \in 1..Len(items)}

RECURSIVE At(_, _)
At(items, path) ==
  IF Len(path) = 1 THEN items[path[1]]
  ELSE At(items[path[1]].items, Tail(path))

\* p comes before q in depth-first, left-to-right order
RECURSIVE Before(_, _)
Before(p, q) ==
  /\ p # <<>>
  /\ q # <<>>
  /\ \/ p[1] < q[1]
     \/ p[1] = q[1] /\ Before(Tail(p), Tail(q))

\* C20: for an upstream response whose data is a nested array of trade rows,
\* fetchEnamData returns in data a single-level sequence holding exactly the
\* rows of the input, each as it came, in depth-first left-to-right order:
\* none dropped, duplicated or reordered.
C20_FlatKeepsRows ==
  \A r \in Slots :
    (req[r].route = "enam" /\ Done(r) /\ req[r].status = 200) =>
      LET out == req[r].body.data
          paths == RowPaths(req[r].upstream.items)
      IN /\ \A i \in 1..Len(out) : out[i].t = "row"
         /\ Len(out) = Cardinality(paths)
         /\ \A p \in paths :
              out[1 + Cardinality({q \in paths : Before(q, p)})]
                = At(req[r].upstream.items, p)

\* [[[r2], r1], r2] comes back as [r2, r1, r2]
C20_Witness ==
  \E r \in Slots :
    /\ req[r].route = "enam"
    /\ req[r].status = 200
    /\ req[r].upstream =
         Arr(<<Arr(<<Arr(<<Row("r2")>>), Row("r1")>>), Row("r2")>>)
    /\ req[r].body.data = <<Row("r2"), Row("r1"), Row("r2")>>

\* C21: no request to any routed endpoint creates, updates or deletes an
\* Alert or a MarketForecast record: both collections stay empty, also when
\* a weather reading trips a threshold and notifications are pushed.
C21_NeverWritten ==
  /\ alerts = <<>>
  /\ forecasts = <<>>

\* a reading tripped a rule, a notification was delivered, no Alert recorded
C21_Witness ==
  \E r \in Slots :
    /\ SendAlert(req[r])
    /\ Done(r)
    /\ req[r].status = 200
    /\ \E i \in 1..Len(req[r].fcmLog) : req[r].fcmLog[i].ok
    /\ alerts = <<>>
    /\ forecasts = <<>>

\* what the handlers throw without answering: upstream calls, the
\* generative model, database saves and lookups, JSON.parse
Unanswered ==
  {"axios.get failed", "axios.post failed", "TypeError", "save failed",
   "UserModel.find failed", "generateContent failed", "SyntaxError",
   "CastError", "ValidationError", "E11000"}

InFlight(r) == req[r].pc \notin {"idle", "done"}

\* C22: a failure that a handler does not answer itself (an upstream weather,
\* market or AI call failing, a database save or lookup throwing, generated
\* content that does not parse) ends the request with exactly one response,
\* the 500 of the top-level error handler; no request is left without a
\* response and none gets two.
C22_OneResponse500 ==
  \A r \in Slots :
    /\ req[r].nresp <= 1
    /\ Done(r) => req[r].nresp = 1
    /\ InFlight(r) => (req[r].nresp = 0 /\ ENABLED NextAll)
    /\ req[r].nerr > 0 =>
         /\ Done(r)
         /\ req[r].nerr = 1
         /\ req[r].status = 500
         /\ req[r].body.error \in Unanswered
    /\ (Done(r) /\ req[r].body.error \in Unanswered) =>
         (req[r].status = 500 /\ req[r].nerr = 1)

\* the user lookup of a broadcast threw after the reading was saved
C22_Witness ==
  \E r \in Slots :
    /\ Done(r)
    /\ req[r].status = 500
    /\ req[r].nerr = 1
    /\ req[r].nresp = 1
    /\ req[r].body.error = "UserModel.find failed"

\* the request is over and its call to an adapter failed
AdapterFailed(q) ==
  /\ q.pc = "done"
  /\ q.body.error \in
       {"axios.get failed", "axios.post failed", "generateContent failed",
        "cropAdviceChatbot failed", "textToSpeech failed",
        "Failed to generate interpretation"}

\* C23: no error is retried. Within one request each external adapter is
\* invoked at most once: one weather-forecast or market-API call, one AI
\* generation call, one user lookup and one FCM send per recipient, in the
\* order found, whether the call succeeds or fails.
C23_NoRetry ==
  \A r \in Slots :
    LET q == req[r] IN
      /\ q.httpCalls <= 1
      /\ q.aiCalls <= 1
      /\ q.httpCalls + q.aiCalls <= 1
      /\ q.finds <= 1
      /\ Len(q.fcmLog) + q.inflight <= Len(q.targets)
      /\ \A i \in 1..Len(q.fcmLog) :
           q.fcmLog[i].token = users[q.targets[i]].fcmToken
      /\ \A i, j \in 1..Len(q.targets) : q.targets[i] = q.targets[j] => i = j
      /\ AdapterFailed(q) => q.httpCalls + q.aiCalls = 1

\* the forecast call failed and was not made a second time
C23_Witness ==
  \E r \in Slots :
    /\ AdapterFailed(req[r])
    /\ req[r].body.error = "axios.get failed"
    /\ req[r].httpCalls = 1
    /\ req[r].status = 500

\* the record that the request created or looked up
OwnUser(q, id) ==
  /\ id \in 1..Len(users)
  /\ CASE q.route \in {"register", "profile"} ->
            /\ id = Len(q.db0.users) + 1
            /\ users[id].authProvider = "local"
            /\ users[id].email = Trim(ToLowerCase(q.email))
       [] q.route = "login" -> id \in LocalAccount(q)
       [] q.route = "auth0" ->
            /\ users[id].authProvider = "auth0"
            /\ users[id].auth0Id = q.oidc.sub
       [] OTHER -> FALSE

\* C24: register, login and auth0_redirect issue the same token format: the
\* claims of the token are exactly sub = the id of the user record, email =
\* its stored email, role = its role, provider = its authProvider, for the
\* record that the request created or looked up; and a token is issued only
\* in a success response.
C24_SameTokenFormat ==
  \A r \in Slots :
    LET q == req[r] IN
      /\ q.signed <= 1
      /\ (q.signed = 1) = (q.body.token # NoToken)
      /\ q.body.token # NoToken =>
           /\ q.pc = "done"
           /\ q.status = 200
           /\ q.nresp = 1
           /\ OwnUser(q, q.body.uid)
           /\ q.body.token =
                [t        |-> "jwt",
                 sub      |-> q.body.uid,
                 email    |-> users[q.body.uid].email,
                 role     |-> users[q.body.uid].role,
                 provider |-> users[q.body.uid].authProvider,
                 key      |-> JWT_SECRET,
                 expired  |-> FALSE]
      /\ (q.pc = "done" /\ q.status # 200) => q.body.token = NoToken

\* a returning Auth0 user, found by its subject id, got its token
C24_Witness ==
  \E r \in Slots :
    /\ req[r].route = "auth0"
    /\ req[r].body.token # NoToken
    /\ req[r].body.token.provider = "auth0"
    /\ req[r].db0.users = users
    /\ req[r].doc = NoDoc

\* a GET /api/auth/profile request that passed verifyJWT
ProfileRequest(q) ==
  /\ q.route = "profile"
  /\ q.nnext = 1

\* C25: a GET /api/auth/profile request with a valid bearer token is answered
\* by the profile lookup: 200 with the record named by the sub claim of the
\* token, or 404 when there is no such record; it never creates a user record
\* and never issues a token.
C25_ProfileLookup ==
  \A r \in Slots :
    LET q == req[r] IN
      ProfileRequest(q) =>
        /\ users = q.db0.users
        /\ q.signed = 0
        /\ q.pc = "done" =>
             /\ q.body.token = NoToken
             /\ IF q.user.sub \in 1..Len(users)
                  THEN q.status = 200 /\ q.body.uid = q.user.sub
                  ELSE q.status = 404

\* the soil-moisture rule trips for the reading
SoilRuleTrips(rd) ==
  \E i \in 1..Len(AlertMessage(rd)) :
    AlertMessage(rd)[i].line = "Low soil moisture"

\* C26: every reading persisted by fetchWeatherFromAPI has solarWm2 = 0 and
\* soilMoisturePct = 0 whatever the forecast, and rainMm = 0 when the forecast
\* entry has no 3-hour rain value; so the soil-moisture rule trips for every
\* persisted reading and every successful send-alert request broadcasts an
\* alert, also when the temperature is at most 40 and the rainfall at most 50.
C26_AlwaysAlerts ==
  /\ \A i \in 1..Len(readings) :
       /\ readings[i].solarWm2 = 0
       /\ readings[i].soilMoisturePct = 0
       /\ SoilRuleTrips(readings[i])
  /\ \A r \in Slots :
       LET q == req[r] IN
         /\ (q.route = "sendAlert" /\ ReadingAdded(q)) =>
              /\ readings[Len(readings)] = q.reading
              /\ q.upstream.rain3h = <<>> => q.reading.rainMm = 0
         /\ (q.route = "sendAlert" /\ q.pc = "done" /\ q.status = 200) =>
              /\ ReadingAdded(q)
              /\ q.finds = 1
              /\ q.message # <<>>
              /\ q.targets = FindWithFcmToken(users)
              /\ Len(q.fcmLog) = Len(q.targets)
              /\ \A i \in 1..Len(q.fcmLog) : q.fcmLog[i].body = q.message

\* a mild forecast without rain was saved and the alert went out to a device
C26_Witness ==
  \E r \in Slots :
    LET q == req[r] IN
      /\ q.route = "sendAlert"
      /\ q.pc = "done"
      /\ q.status = 200
      /\ q.upstream.rain3h = <<>>
      /\ q.reading.tempC <= TempLimit
      /\ q.reading.rainMm = 0
      /\ \E i \in 1..Len(q.fcmLog) : q.fcmLog[i].ok
      /\ Len(q.message) = 1

\* the request was refused by the coordinate test
Refused(q) ==
  /\ q.pc = "done"
  /\ q.status = 400
  /\ q.body = ErrorBody("lat and lon are required")

\* C27: fetchWeatherFromAPI answers 400, without calling the weather API,
\* persisting a reading or sending a notification, exactly when lat or lon is
\* falsy: a missing coordinate, and also a coordinate equal to the number 0.
C27_FalsyCoordinates ==
  \A r \in Slots :
    LET q == req[r]
        falsy == \/ q.lat \in {<<>>, <<0>>}
                 \/ q.lon \in {<<>>, <<0>>}
    IN (q.route = "sendAlert" /\ q.pc # "handler") =>
         /\ falsy =>
              /\ Refused(q)
              /\ q.nresp = 1
              /\ q.httpCalls = 0
              /\ q.finds = 0
              /\ q.fcmLog = <<>>
              /\ readings = q.db0.readings
         /\ ~falsy =>
              /\ ~Refused(q)
              /\ q.httpCalls = 1
              /\ q.pc = "done" => q.status # 400

\* latitude 0 with a longitude given was refused
C27_Witness ==
  \E r \in Slots :
    /\ req[r].route = "sendAlert"
    /\ req[r].lat = <<0>>
    /\ req[r].lon = <<77>>
    /\ Refused(req[r])

ChatRoutes == {"bot", "text-to-speech", "generateResult"}

\* the 400 message, the 200 payload and the 500 message of each handler
ChatRefusal(route) ==
  CASE route = "bot"            -> "Query is required"
    [] route = "text-to-speech" -> "Text is required"
    [] route = "generateResult" -> "No detection result provided."

ChatResult(route) ==
  CASE route = "bot"            -> "answer"
    [] route = "text-to-speech" -> "audio/wav"
    [] route = "generateResult" -> "interpretation"

ChatFailure(route) ==
  CASE route = "bot"            -> "cropAdviceChatbot failed"
    [] route = "text-to-speech" -> "textToSpeech failed"
    [] route = "generateResult" -> "Failed to generate interpretation"

\* C28: ChatBotFunction, texttospeech and generateResult send exactly one
\* response per request: 400 without an AI call when the required field is
\* missing or empty, 200 with the AI result when the AI call succeeds, 500
\* with the error message when it throws, the error never reaching the
\* top-level handler; and none of them reads or writes the database.
C28_ChatOneResponse ==
  \A r \in Slots :
    LET q == req[r]
        empty == q.field = <<>> \/ q.field[1] \in {"", Null}
    IN q.route \in ChatRoutes =>
         /\ q.nresp <= 1
         /\ q.nerr = 0
         /\ q.aiCalls <= 1
         /\ q.finds = 0
         /\ q.httpCalls = 0
         /\ <<users, readings, samples, recs>>
              = <<q.db0.users, q.db0.readings, q.db0.samples, q.db0.recs>>
         /\ q.pc # "done" => q.nresp = 0 /\ ENABLED NextChat
         /\ q.pc = "done" =>
              /\ q.nresp = 1
              /\ q.status \in {200, 400, 500}
              /\ (q.status = 400) = empty
              /\ q.status = 400 =>
                   q.aiCalls = 0 /\ q.body = ErrorBody(ChatRefusal(q.route))
              /\ q.status = 200 =>
                   /\ q.aiCalls = 1
                   /\ q.body = [error |-> "", data |-> ChatResult(q.route)]
              /\ q.status = 500 =>
                   q.aiCalls = 1 /\ q.body = ErrorBody(ChatFailure(q.route))

\* the text-to-speech flow threw and the handler answered 500 itself
C28_Witness ==
  \E r \in Slots :
    /\ req[r].route = "text-to-speech"
    /\ req[r].pc = "done"
    /\ req[r].status = 500
    /\ req[r].nerr = 0
    /\ req[r].aiCalls = 1
    /\ users # <<>>

====
